---- MODULE Spec2Model ----
(***************************************************************************)
(* A model of the vAmiga emulator core: the run/pause/suspend state        *)
(* machine of class Amiga with its emulator thread (Amiga.cpp), the        *)
(* run-loop control flags, the snapshot storage, the exported info         *)
(* structs and the memory source table (Memory.cpp).                       *)
(***************************************************************************)
EXTENDS Integers, Naturals, Sequences, FiniteSets, TLC

(***************************************************************************)
(* Bounds of the model                                                     *)
(***************************************************************************)
\* Number of pthread handles that can be alive at the same time
MaxThreads == 2
\* Deepest nesting of suspend() calls that is explored
MaxNest == 2
\* Longest message log kept for one host call
MaxLog == 4
\* Number of snapshots taken and deleted along one run
MaxTakes == 34
MaxDeletes == 2
\* Number of instructions the emulator thread executes while it is inspected
MaxClock == 3
\* Number of DMA cycles Agnus executes while the Cpu waits for the bus
MaxWait == 2
\* Largest width (in words) and height (in lines) of a blit
MaxBltW == 2
MaxBltH == 2

\* Amiga::MAX_SNAPSHOTS
MAX_SNAPSHOTS == 32

(***************************************************************************)
(* State                                                                   *)
(***************************************************************************)
VARIABLES
    power,            \* HardwareComponent::power
    running,          \* HardwareComponent::running
    p,                \* Amiga::p, the emulator thread handle (0 is NULL)
    runLoopCtrl,      \* Amiga::runLoopCtrl, the set of raised RL_ flags
    debugMode,        \* Amiga::debugMode
    suspendCounter,   \* Amiga::suspendCounter
    bpArmed,          \* cpu.bpManager holds a breakpoint that can trigger
    model,            \* Amiga::model
    realTimeClock,    \* Amiga::realTimeClock
    mem,              \* the Memory object: sizes in KB, Rom kind, memSrc
    cpuSpeed,         \* cpu.getSpeed()
    blitterAccuracy,  \* agnus.blitter.getConfig().accuracy
    cfgRet,           \* what the last call of configure() returned
    storage,          \* a snapshot storage (vector<Snapshot *>), newest first
    taken,            \* number of snapshots taken; names the latest snapshot
    deleted,          \* number of calls of deleteSnapshot()
    clock,            \* the live state of the emulator: cpu.clock, agnus.clock,
                      \* the Cpu registers and paula.intreq / intena
    lock,             \* holder of the mutex: "none", "host" or "worker"
    info,             \* the info structs: info.amiga and info.cpu
    wpc,              \* where the emulator thread is in inspect()
    hpc,              \* where the host is in getInfo()
    result,           \* what the getInfo() in progress (or the last) returns
    captures,         \* the live states inspect() has been called in
    dataBus,          \* Memory::dataBus
    ram,              \* the word at the accessed offset of each kind of Ram,
                      \* and COLOR00 for a write-only custom register
    blocked,          \* the Cpu has to wait: the bus is not free
    busOwner,         \* agnus.busOwner[agnus.pos.h] and
    busValue,         \* agnus.busValue[agnus.pos.h] as last looked at
    cpc,              \* where the Cpu is in its memory access
    acc,              \* the memory access in progress (or the last one)
    ret,              \* what the last peek returned
    bus,              \* observations made along the access (see BusObsInit)
    ld,               \* the memory a snapshot is loaded into (see LoadInit)
    blt,              \* the Blitter (see BltInit)
    tw,               \* the fake Blitter and the current DMA slot (see TwInit)
    ev,               \* the event slot of the Blitter (see EvInit)
    dn,               \* Denise (see DnInit)
    tm,               \* the timer of the emulator thread (see TmInit)
    irq,              \* Paula's interrupt registers (see IrqInit)
    cp,               \* the two control ports (see CpInit)
    stack,            \* per thread: the code that is left to execute
    jt,               \* per thread: the handle passed to pthread_join
    msgs,             \* messages put into the queue since the last host call
    obs               \* observations made along the run (see ObsInit)

\* The state of the run/pause state machine and of the threads
lifeVars == <<power, running, p, runLoopCtrl, debugMode, suspendCounter,
              bpArmed, stack, jt, msgs, obs>>

\* The state no step of the state machine writes
cfgVars == <<model, realTimeClock, mem, cpuSpeed, blitterAccuracy>>
snapVars == <<storage, taken, deleted>>
infoVars == <<clock, lock, info, wpc, hpc, result, captures>>
busVars == <<dataBus, ram, blocked, busOwner, busValue, cpc, acc, ret, bus>>
chipVars == <<tw, ev, dn, tm, irq, cp>>
otherVars == <<busVars, ld, blt, chipVars>>
nonLife == <<cfgVars, cfgRet, snapVars, infoVars, otherVars>>

vars == <<lifeVars, nonLife>>

\* Thread 0 is the host (GUI) thread, 1..MaxThreads are emulator threads
Host == 0
Workers == 1..MaxThreads
Threads == {Host} \cup Workers

RL_FLAGS == {"RL_ENABLE_TRACING", "RL_ENABLE_BREAKPOINTS",
             "RL_SNAPSHOT", "RL_INSPECT", "RL_STOP"}
RL_DEBUG == {"RL_ENABLE_TRACING", "RL_ENABLE_BREAKPOINTS"}

AmigaModels == {"AMIGA_500", "AMIGA_1000", "AMIGA_2000"}

\* Labels of the code a worker executes inside the do-while loop of runLoop()
LoopLabels == {"exec", "chk0", "chkSnap", "clrSnap", "chkInsp", "clrInsp",
               "chkBp", "chkStop"}

Alive(t) == stack[t] # <<>>
InRunLoop(t) == Alive(t) /\ Head(stack[t]) \in LoopLabels \cup {"start"}

\* Amiga::isRunning() and Amiga::isPaused()
isRunning == p # 0
isPaused == power /\ p = 0

\* Amiga::readyToPowerUp()
readyToPowerUp ==
    /\ mem.chipSize # 0
    /\ ~(model = "AMIGA_1000" /\ mem.rom # "boot")
    /\ ~(model # "AMIGA_1000" /\ mem.rom # "kick")

(***************************************************************************)
(* Memory: the memory source table                                         *)
(***************************************************************************)
\* The pages memSrc is kept for: of the 256 pages of the address space, those
\* at which a region of the table can begin or end, and their neighbours
Pages == {0, 7, 8, 31, 32, 33, 35, 36, 39, 40, 159, 160, 191, 192, 195, 196,
          199, 200, 219, 220, 222, 223, 224, 231, 232, 239, 240, 247, 248,
          251, 252, 255}

\* The source updateMemSrcTable() assigns to page i before it looks at the
\* OVL line. The function assigns region after region, a later assignment
\* overwrites an earlier one: the regions are tested here last one first.
SrcBeforeOverlay(m, rtc, i) ==
    LET mem_rom == IF m.romSize # 0 THEN "MEM_ROM" ELSE "MEM_UNMAPPED"
        mem_wom == IF m.womSize # 0 THEN "MEM_WOM" ELSE mem_rom
        chipRamPages == IF m.chipSize # 0 THEN 32 ELSE 0
        slowRamPages == m.slowSize \div 64
        fastRamPages == m.fastSize \div 64
        extRomPages == IF m.extSize # 0 THEN 8 ELSE 0
    IN  IF m.womSize # 0 /\ ~m.womIsLocked /\ 248 <= i /\ i <= 251
        THEN mem_rom
        ELSE IF 248 <= i /\ i <= 255 THEN mem_wom
        ELSE IF m.extStart <= i /\ i < m.extStart + extRomPages
        THEN "MEM_EXT"
        ELSE IF 232 <= i /\ i <= 239 THEN "MEM_AUTOCONF"
        ELSE IF rtc /\ 220 <= i /\ i <= 222 THEN "MEM_RTC"
        ELSE IF 192 <= i /\ i < 192 + slowRamPages THEN "MEM_SLOW"
        ELSE IF 192 <= i /\ i <= 223 THEN "MEM_OCS"
        ELSE IF 160 <= i /\ i <= 191 THEN "MEM_CIA"
        ELSE IF 32 <= i /\ i < 32 + fastRamPages THEN "MEM_FAST"
        ELSE IF i < chipRamPages THEN "MEM_CHIP"
        ELSE "MEM_UNMAPPED"

\* A variant of the table that ignores the OVL line
MemSrcOfNoOverlay(m, rtc) ==
    [i \in Pages |-> SrcBeforeOverlay(m, rtc, i)]

\* The table Memory::updateMemSrcTable() computes for memory m: with OVL
\* high, the pages 0 ... 7 take the sources of 0xF8 ... 0xFF up to the first
\* unmapped one
MemSrcOf(m, rtc) ==
    [i \in Pages |->
        IF /\ m.ovl
           /\ i < 8
           /\ \A k \in 0..i : SrcBeforeOverlay(m, rtc, 248 + k) # "MEM_UNMAPPED"
        THEN SrcBeforeOverlay(m, rtc, 248 + i)
        ELSE SrcBeforeOverlay(m, rtc, i)]

\* Memory::updateMemSrcTable(): the new memory and the message it posts
updateMemSrcTable(m, rtc) ==
    [m |-> [m EXCEPT !.memSrc = MemSrcOf(m, rtc)],
     log |-> <<"MSG_MEM_LAYOUT">>, ok |-> TRUE]

\* Memory::alloc() for the region whose size is field size of m. A request
\* of kb < 0 stands for the huge size_t a negative long converts to, for
\* which operator new returns NULL.
alloc(m, size, kb, rtc) ==
    IF kb = m[size]
    THEN [m |-> m, log |-> <<>>, ok |-> TRUE]
    ELSE IF kb < 0
    THEN [m |-> [m EXCEPT ![size] = 0], log |-> <<>>, ok |-> FALSE]
    ELSE updateMemSrcTable([m EXCEPT ![size] = kb], rtc)

\* A Memory object with the given Chip Ram and Rom and an up-to-date table
MemoryWith(chip, rom, ovl) ==
    LET m == [rom |-> rom,
              romSize |-> IF rom = "none" THEN 0 ELSE IF rom = "boot" THEN 8
                          ELSE 512,
              womSize |-> IF rom = "boot" THEN 256 ELSE 0,
              extSize |-> 0, chipSize |-> chip, slowSize |-> 0,
              fastSize |-> 0, extStart |-> 224, womIsLocked |-> FALSE,
              womWritten |-> FALSE, womData |-> 0, ovl |-> ovl,
              memSrc |-> <<>>]
    IN  [m EXCEPT !.memSrc = MemSrcOf(m, FALSE)]

\* Values of a word on the data bus: all bits clear or all bits set
Word == {0, 1}
\* 0xFFFF
AllOnes == 1
\* Bitwise or of two words
Or(a, b) == IF a = AllOnes \/ b = AllOnes THEN AllOnes ELSE 0

\* What is recorded of a memory access of the Cpu, never read by the program
\*   waited     executeUntilBusIsFree() was called
\*   busy       the memory or device was touched while the bus was not free
\*   dma        DMA cycles Agnus executed while the Cpu waited
\*   wrote      one of them wrote the word the Cpu accesses
\*   again      the access repeats the peek16 made right before it, which
\*   first      returned this value
\*   unaligned  a 16 bit write was made at the odd address
BusObsInit == [waited |-> FALSE, busy |-> FALSE, dma |-> 0, wrote |-> FALSE,
               again |-> FALSE, first |-> 0, unaligned |-> FALSE]

\* The memory bus before the first access of the Cpu
BusInit ==
    /\ dataBus = 0
    /\ ram = [k \in {"MEM_CHIP", "MEM_SLOW", "MEM_FAST", "COLOR00"} |-> 0]
    /\ blocked = FALSE
    /\ busOwner = "BUS_NONE"
    /\ busValue = 0
    /\ cpc = "idle"
    /\ acc = [op |-> "none", page |-> 0, odd |-> FALSE, value |-> 0,
              custom |-> "DMACONR"]
    /\ ret = 0
    /\ bus = BusObsInit

\* The regions of memory in the order a snapshot holds them, and the largest
\* size in KB didLoadFromBuffer() accepts for each
Regions == <<"rom", "wom", "ext", "chip", "slow", "fast">>
RegionLimit(r) ==
    CASE r = "rom" -> 512 [] r = "wom" -> 256 [] r = "ext" -> 512
      [] r = "chip" -> 2048 [] r = "slow" -> 512 [] r = "fast" -> 8192
RegionSet == {Regions[i] : i \in 1..Len(Regions)}

\* The memory before a snapshot is loaded: nothing is allocated
\*   size    config.romSize ... config.fastSize in KB
\*   ptr     rom ... fast point to allocated memory
\*   mask    the address masks of the regions, as passed to alloc()
\*   buffer  the size fields of the snapshot loaded last
\*   pc      "idle", "loaded" after didLoadFromBuffer() has returned,
\*           "allocated" and "failed" after alloc() has returned true and
\*           false, "aborted" when an assertion has ended the program
LoadInit == [size |-> [r \in RegionSet |-> 0],
             ptr |-> [r \in RegionSet |-> FALSE],
             mask |-> [r \in RegionSet |-> 0],
             buffer |-> [r \in RegionSet |-> 0],
             pc |-> "idle"]

\* The Blitter before its first blit
\*   state     "idle", "run" while a blit is executed, "done" after endBlit()
\*   nr, fill  the micro program: BLTCON0[11:8] and the fill mode
\*   written   ghost: words written through channel D in this blit
\*   ended     ghost: calls of endBlit() in this blit
\*   nz        ghost: a HOLD_D of this blit has produced a nonzero dhold
\*   mask      the masks setXCounter() has selected for this iteration
\*   fills     ghost: calls of doFill() on the current dhold
\*   fetchedA  ghost: words fetched through channel A in this blit
\*   heldA     ghost: words of channel A taken over by HOLD_A in this blit
\*   posA      ghost: position in its row (1..bltsizeW) of the word the last
\*             HOLD_A has taken over, 0 before the first
\*   maskA     ghost: the masks the last HOLD_A has applied
BltInit == [state |-> "idle", nr |-> 0, fill |-> FALSE,
            bltsizeW |-> 1, bltsizeH |-> 1, xCounter |-> 0, yCounter |-> 0,
            bltpc |-> 0, lockD |-> FALSE, bzero |-> TRUE, dhold |-> 0,
            written |-> 0, ended |-> 0, nz |-> FALSE,
            mask |-> {}, fills |-> 0, fetchedA |-> 0, heldA |-> 0,
            posA |-> 0, maskA |-> {}]

\* The fake Blitter and the DMA slot before the first blit: the same blit is
\* executed twice, in full (blt) and as fake execution (fk), over the same
\* DMA slots
\*   fk          the Blitter of the fake execution
\*   ownF, valF  busOwner[pos.h] and busValue[pos.h] of the full execution
\*   ownK, valK  the same of the fake execution
\*   kind        what the full Blitter asked of the bus in this slot
\*   instr       the instruction of the full Blitter in this slot
\*   locked      lockD of the full Blitter before the slot
\*   wentF/K     the instruction of the full / fake Blitter was executed
\*   assigns     ghost: assignments to busOwner[pos.h] in this slot
\*   tick        ghost: flips with every slot
TwInit == [fk |-> BltInit, ownF |-> "BUS_NONE", valF |-> 0,
           ownK |-> "BUS_NONE", valK |-> 0, kind |-> "none",
           instr |-> {}, locked |-> FALSE,
           wentF |-> FALSE, wentK |-> FALSE, assigns |-> 0, tick |-> FALSE]

\* The event slot of the Blitter before the first event
\* The event slots of the model and the identifiers scheduled in them
EvSlots == {"BLT_SLOT", "INS_SLOT"}

EvIds(s) ==
    IF s = "BLT_SLOT" THEN {"BLT_COPY_SLOW", "BLT_COPY_FAKE"}
    ELSE {"INS_NONE", "INS_AMIGA"}

\* The trigger cycle of a slot without event
NEVER == 99

\* struct Event: when the event is due and its identifier
Event(triggerCycle, id) == [id |-> id, triggerCycle |-> triggerCycle]

\* The scheduler before the first event
\*   clock   the clock of Agnus, in DMA cycles
\*   slot    the event of each slot
\*   req     ghost: the last schedule call on each slot
\*   done    ghost: the last invocation of each slot's handler: the cycle
\*           (at), the identifier passed (id), and cycle and identifier of
\*           the call it answers (due, want)
\*   lost    ghost: a call on the slot was replaced before its event fired
\*   mixed   ghost: another slot was scheduled while the slot's event waited
EvInit == [clock |-> 0,
           done |-> [s \in EvSlots |->
                        [at |-> NEVER, due |-> NEVER, id |-> "", want |-> ""]],
           lost |-> [s \in EvSlots |-> FALSE],
           mixed |-> [s \in EvSlots |-> FALSE],
           req |-> [s \in EvSlots |-> Event(NEVER, "")],
           slot |-> [s \in EvSlots |-> Event(NEVER, "")]]

\* Denise after construction
\* What Denise has done last: the function, its sprite or colour register,
\* the horizontal position of Agnus and the source of the write
Op(name, x, h, src) == [h |-> h, name |-> name, src |-> src, x |-> x]

\* Denise after the reset
\*   armed    the armed sprites (the bits of 'armed')
\*   wasArmed the sprites that were armed at some time in the current line
\*            (the bits of 'wasArmed')
\*   con, spr, col   conRegChanges, sprRegChanges, pixelEngine.colRegChanges:
\*            the recorded changes <<trigger pixel, register, index>>
\*   inLine   beginOfLine() has been called and endOfLine() has not
\*   clxcon   bits 12 to 15 of CLXCON
\*   clxdat   the bits of CLXDAT
\*   ret      the bits of the value read from CLXDAT, if that was the last
\*            thing done
\*   checks   the collision checks since CLXDAT was read
\*   op       ghost: what Denise has done last
DnInit == [armed |-> {}, wasArmed |-> {}, con |-> <<>>, spr |-> <<>>, col |-> <<>>,
           inLine |-> TRUE, clxcon |-> {}, clxdat |-> {}, ret |-> {},
           checks |-> 0, op |-> Op("reset", 0, 0, "")]

\* The timer before the emulator thread runs
\* The timer of the run loop; times are in units of 100 ms, and so is the
\* clock of Agnus
\*   timeBase, clockBase   the fields of Amiga
\*   clock    agnus.clock
\*   time     the time of the host
\*   now, target   ghost: now and targetTime of the last synchronizeTiming()
\*   slept    ghost: how long that call has slept
\*   done     ghost: what that call has done
TmInit == [timeBase |-> 0, clockBase |-> 0, clock |-> 0, time |-> 0,
           now |-> 0, target |-> 0, slept |-> 0, done |-> "none"]

\* Paula's interrupt registers after construction
\* Paula after the reset: no interrupt requested, none enabled
\*   level    the last result of interruptLevel(), -1 once a register has
\*            been written since
IrqInit == [intreq |-> {}, intena |-> {}, level |-> 0]

\* The control ports after construction: no device is connected
\*   device   what is plugged into the port
\*   mouseCounterX, mouseCounterY   the counters of the mouse
\*   ret      the value the last read of JOYxDAT has returned
\*   op       ghost: what was done last
CpPort == [device |-> "CPD_NONE", mouseCounterX |-> 0, mouseCounterY |-> 0]

CpInit == [port |-> <<CpPort, CpPort>>, ret |-> 0, op |-> "none"]

ChipInit ==
    /\ cp = CpInit
    /\ tw = TwInit
    /\ ev = EvInit
    /\ dn = DnInit
    /\ tm = TmInit
    /\ irq = IrqInit

\* The configuration after construction
InitConfig ==
    /\ realTimeClock = FALSE
    /\ cpuSpeed = 1
    /\ blitterAccuracy = 0
    /\ cfgRet = TRUE
    /\ storage = <<>>
    /\ taken = 0
    /\ deleted = 0
    /\ clock = 0
    /\ lock = "none"
    /\ info = [amiga |-> [cpuClock |-> 0, dmaClock |-> 0],
               cpu |-> [pc |-> 0, d0 |-> 0]]
    /\ wpc = "run"
    /\ hpc = "idle"
    /\ result = [of |-> "none", a |-> 0, b |-> 0]
    /\ captures = {0}
    /\ BusInit
    /\ ld = LoadInit
    /\ blt = BltInit
    /\ ChipInit

(***************************************************************************)
(* Helpers                                                                 *)
(***************************************************************************)
At(th, l) == stack[th] # <<>> /\ Head(stack[th]) = l

\* Thread th replaces the statement it is at by the statements in new
Cont(th, new) == stack' = [stack EXCEPT ![th] = new \o Tail(@)]

\* MessageQueue::putMessage, recorded in the log of the current host call
Logged(log, m) == IF Len(log) < MaxLog THEN Append(log, m) ELSE log
putMessage(m) == msgs' = Logged(msgs, m)

\* Message m was put into the queue since the last call of the host began
Posted(m) == \E i \in 1..Len(msgs) : msgs[i] = m

\* The lifecycle state as seen through the public API of class Amiga
State == IF ~power THEN "Off" ELSE IF isRunning THEN "Running" ELSE "Paused"

(***************************************************************************)
(* Observations: history recorded along a run, never read by the program   *)
(*   stopCnt    instructions begun since the last signalStop() while that  *)
(*              request is pending (-1: no request pending)                *)
(*   inspReq    "fresh" once RL_INSPECT is requested, "served" once an     *)
(*              inspect() started after the request                        *)
(*   snapReq    the same for RL_SNAPSHOT                                   *)
(*   call, pre  the host call in progress (or last made) and the state it  *)
(*              was made in                                                *)
(***************************************************************************)
ObsInit == [stopCnt |-> -1, inspReq |-> "none", snapReq |-> "none",
            call |-> "none", pre |-> "Off"]

(***************************************************************************)
(* HardwareComponent: run(), pause(), powerOn(), powerOff()                *)
(***************************************************************************)
\* HardwareComponent::run(): only a paused component is started
run(th) ==
    /\ At(th, "run")
    /\ IF power /\ ~running
       THEN running' = TRUE /\ Cont(th, <<"_run">>)
       ELSE running' = running /\ Cont(th, <<>>)
    /\ UNCHANGED <<power, p, runLoopCtrl, debugMode, suspendCounter, bpArmed,
                   jt, msgs, obs, nonLife>>

\* A variant of _run() that starts the thread without looking at the Roms
_runUnchecked(th) ==
    /\ At(th, "_run")
    /\ \E t \in Workers :
            /\ ~Alive(t)
            /\ \A u \in Workers : ~Alive(u) => t <= u
            /\ p' = t
            /\ stack' = [stack EXCEPT ![th] = Tail(@), ![t] = <<"start">>]
            /\ putMessage("MSG_RUN")
    /\ UNCHANGED <<power, running, runLoopCtrl, debugMode, suspendCounter,
                   bpArmed, jt, obs, nonLife>>

\* Amiga::_run(): creates the emulator thread unless a Rom is missing
_run(th) ==
    /\ At(th, "_run")
    /\ IF ~readyToPowerUp
       THEN /\ putMessage("MSG_ROM_MISSING")
            /\ Cont(th, <<>>)
            /\ p' = p
       ELSE \E t \in Workers :
            /\ ~Alive(t)
            /\ \A u \in Workers : ~Alive(u) => t <= u
            /\ p' = t
            /\ stack' = [stack EXCEPT ![th] = Tail(@), ![t] = <<"start">>]
            /\ putMessage("MSG_RUN")
    /\ UNCHANGED <<power, running, runLoopCtrl, debugMode, suspendCounter,
                   bpArmed, jt, obs, nonLife>>

\* HardwareComponent::pause(): only a running component is paused
pause(th) ==
    /\ At(th, "pause")
    /\ IF running
       THEN /\ running' = FALSE
            /\ Cont(th, <<"_pauseSig", "_pauseJoin", "_pauseWait", "_pauseTail">>)
       ELSE running' = running /\ Cont(th, <<>>)
    /\ UNCHANGED <<power, p, runLoopCtrl, debugMode, suspendCounter, bpArmed,
                   jt, msgs, obs, nonLife>>

\* Amiga::_pause(), first statement: if (p) signalStop();
_pauseSig(th) ==
    /\ At(th, "_pauseSig")
    /\ Cont(th, <<>>)
    /\ IF p # 0
       THEN /\ runLoopCtrl' = runLoopCtrl \cup {"RL_STOP"}
            /\ obs' = [obs EXCEPT !.stopCnt = 0]
       ELSE UNCHANGED <<runLoopCtrl, obs>>
    /\ UNCHANGED <<power, running, p, debugMode, suspendCounter, bpArmed, jt,
                   msgs, nonLife>>

\* Amiga::_pause(), pthread_join(p, NULL): the argument p is evaluated ...
_pauseJoin(th) ==
    /\ At(th, "_pauseJoin")
    /\ Cont(th, <<>>)
    /\ jt' = [jt EXCEPT ![th] = p]
    /\ UNCHANGED <<power, running, p, runLoopCtrl, debugMode, suspendCounter,
                   bpArmed, msgs, obs, nonLife>>

\* ... and the call returns once that thread has terminated (at once for NULL)
_pauseWait(th) ==
    /\ At(th, "_pauseWait")
    /\ jt[th] = 0 \/ ~Alive(jt[th])
    /\ Cont(th, <<>>)
    /\ UNCHANGED <<power, running, p, runLoopCtrl, debugMode, suspendCounter,
                   bpArmed, jt, msgs, obs, nonLife>>

\* Amiga::_pause(), the rest: inspect(); putMessage(MSG_PAUSE);
_pauseTail(th) ==
    /\ At(th, "_pauseTail")
    /\ Cont(th, <<>>)
    /\ putMessage("MSG_PAUSE")
    /\ UNCHANGED <<power, running, p, runLoopCtrl, debugMode, suspendCounter,
                   bpArmed, jt, obs, nonLife>>

\* HardwareComponent::powerOn() with Amiga::_powerOn()
powerOn(th) ==
    /\ At(th, "powerOn")
    /\ Cont(th, <<>>)
    /\ IF ~power
       THEN /\ power' = TRUE
            /\ runLoopCtrl' = {}
            /\ debugMode' = TRUE
            /\ putMessage("MSG_POWER_ON")
       ELSE UNCHANGED <<power, runLoopCtrl, debugMode, msgs>>
    /\ UNCHANGED <<running, p, suspendCounter, bpArmed, jt, obs, nonLife>>

\* HardwareComponent::powerOff(): pauses first if needed
powerOff(th) ==
    /\ At(th, "powerOff")
    /\ IF power THEN Cont(th, <<"pause", "_powerOff">>) ELSE Cont(th, <<>>)
    /\ UNCHANGED <<power, running, p, runLoopCtrl, debugMode, suspendCounter,
                   bpArmed, jt, msgs, obs, nonLife>>

\* power = false; Amiga::_powerOff()
_powerOff(th) ==
    /\ At(th, "_powerOff")
    /\ Cont(th, <<>>)
    /\ power' = FALSE
    /\ putMessage("MSG_POWER_OFF")
    /\ UNCHANGED <<running, p, runLoopCtrl, debugMode, suspendCounter,
                   bpArmed, jt, obs, nonLife>>

(***************************************************************************)
(* Amiga: suspend(), resume(), reset(), control flags                      *)
(***************************************************************************)
\* suspend() without the early return for a stopped emulator
suspendAlways(th) ==
    /\ At(th, "suspend")
    /\ Cont(th, <<"pause", "suspendInc">>)
    /\ UNCHANGED <<power, running, p, runLoopCtrl, debugMode, suspendCounter,
                   bpArmed, jt, msgs, obs, nonLife>>

\* Amiga::suspend(), up to the call of pause()
suspend(th) ==
    /\ At(th, "suspend")
    /\ IF suspendCounter = 0 /\ ~isRunning
       THEN Cont(th, <<>>)
       ELSE Cont(th, <<"pause", "suspendInc">>)
    /\ UNCHANGED <<power, running, p, runLoopCtrl, debugMode, suspendCounter,
                   bpArmed, jt, msgs, obs, nonLife>>

\* Amiga::suspend(), suspendCounter++
suspendInc(th) ==
    /\ At(th, "suspendInc")
    /\ Cont(th, <<>>)
    /\ suspendCounter' = suspendCounter + 1
    /\ UNCHANGED <<power, running, p, runLoopCtrl, debugMode, bpArmed, jt,
                   msgs, obs, nonLife>>

\* Amiga::resume(), up to the call of run()
resume(th) ==
    /\ At(th, "resume")
    /\ IF suspendCounter = 0
       THEN Cont(th, <<>>) /\ suspendCounter' = suspendCounter
       ELSE /\ suspendCounter' = suspendCounter - 1
            /\ IF suspendCounter - 1 = 0
               THEN Cont(th, <<"run">>)
               ELSE Cont(th, <<>>)
    /\ UNCHANGED <<power, running, p, runLoopCtrl, debugMode, bpArmed, jt,
                   msgs, obs, nonLife>>

\* Amiga::reset(): a suspend() / resume() block around the reset proper
reset(th) ==
    /\ At(th, "reset")
    /\ Cont(th, <<"suspend", "resetBody", "resume">>)
    /\ UNCHANGED <<power, running, p, runLoopCtrl, debugMode, suspendCounter,
                   bpArmed, jt, msgs, obs, nonLife>>

\* assert(!isRunning()); HardwareComponent::reset(); putMessage(MSG_RESET);
resetBody(th) ==
    /\ At(th, "resetBody")
    /\ Cont(th, <<>>)
    /\ putMessage("MSG_RESET")
    /\ UNCHANGED <<power, running, p, runLoopCtrl, debugMode, suspendCounter,
                   bpArmed, jt, obs, nonLife>>

\* Amiga::setControlFlags(RL_INSPECT) called by the host
signalInspect(th) ==
    /\ At(th, "signalInspect")
    /\ Cont(th, <<>>)
    /\ runLoopCtrl' = runLoopCtrl \cup {"RL_INSPECT"}
    /\ obs' = [obs EXCEPT !.inspReq = "fresh"]
    /\ UNCHANGED <<power, running, p, debugMode, suspendCounter, bpArmed, jt,
                   msgs, nonLife>>

\* Amiga::setControlFlags(RL_SNAPSHOT) called by the host
signalSnapshot(th) ==
    /\ At(th, "signalSnapshot")
    /\ Cont(th, <<>>)
    /\ runLoopCtrl' = runLoopCtrl \cup {"RL_SNAPSHOT"}
    /\ obs' = [obs EXCEPT !.snapReq = "fresh"]
    /\ UNCHANGED <<power, running, p, debugMode, suspendCounter, bpArmed, jt,
                   msgs, nonLife>>

\* Amiga::setDebugMode(enable)
setDebugMode(th) ==
    /\ \E enable \in BOOLEAN :
        /\ At(th, IF enable THEN "debugOn" ELSE "debugOff")
        /\ debugMode' = enable
        /\ runLoopCtrl' = IF enable THEN runLoopCtrl \cup RL_DEBUG
                                    ELSE runLoopCtrl \ RL_DEBUG
    /\ Cont(th, <<>>)
    /\ UNCHANGED <<power, running, p, suspendCounter, bpArmed, jt, msgs, obs,
                   nonLife>>

\* The host adds or removes the breakpoints of cpu.bpManager
setBreakpoints(th) ==
    /\ \E on \in BOOLEAN :
        /\ At(th, IF on THEN "bpOn" ELSE "bpOff")
        /\ bpArmed' = on
    /\ Cont(th, <<>>)
    /\ UNCHANGED <<power, running, p, runLoopCtrl, debugMode, suspendCounter,
                   jt, msgs, obs, nonLife>>

(***************************************************************************)
(* The emulator thread: threadMain(), Amiga::runLoop()                     *)
(***************************************************************************)
\* runLoop() before the loop: debugMode ? setControlFlags : clearControlFlags
start(th) ==
    /\ At(th, "start")
    /\ Cont(th, <<"exec">>)
    /\ runLoopCtrl' = IF debugMode THEN runLoopCtrl \cup RL_DEBUG
                                   ELSE runLoopCtrl \ RL_DEBUG
    /\ UNCHANGED <<power, running, p, debugMode, suspendCounter, bpArmed, jt,
                   msgs, obs, nonLife>>

\* cpu.executeInstruction(); agnus.executeUntil(newClock);
exec(th) ==
    /\ At(th, "exec")
    /\ Cont(th, <<"chk0">>)
    /\ obs' = [obs EXCEPT !.stopCnt = IF @ >= 0 /\ @ < 2 THEN @ + 1 ELSE @]
    /\ UNCHANGED <<power, running, p, runLoopCtrl, debugMode, suspendCounter,
                   bpArmed, jt, msgs, nonLife>>

\* if (runLoopCtrl) { ... }
chk0(th) ==
    /\ At(th, "chk0")
    /\ IF runLoopCtrl = {} THEN Cont(th, <<"exec">>) ELSE Cont(th, <<"chkSnap">>)
    /\ UNCHANGED <<power, running, p, runLoopCtrl, debugMode, suspendCounter,
                   bpArmed, jt, msgs, obs, nonLife>>

\* if (runLoopCtrl & RL_SNAPSHOT) { takeAutoSnapshot(); ...
chkSnap(th) ==
    /\ At(th, "chkSnap")
    /\ IF "RL_SNAPSHOT" \in runLoopCtrl
       THEN /\ Cont(th, <<"clrSnap">>)
            /\ putMessage("MSG_SNAPSHOT_TAKEN")
            /\ obs' = [obs EXCEPT !.snapReq = "served"]
       ELSE Cont(th, <<"chkInsp">>) /\ UNCHANGED <<msgs, obs>>
    /\ UNCHANGED <<power, running, p, runLoopCtrl, debugMode, suspendCounter,
                   bpArmed, jt, nonLife>>

\* ... clearControlFlags(RL_SNAPSHOT); }
clrSnap(th) ==
    /\ At(th, "clrSnap")
    /\ Cont(th, <<"chkInsp">>)
    /\ runLoopCtrl' = runLoopCtrl \ {"RL_SNAPSHOT"}
    /\ obs' = [obs EXCEPT !.snapReq = "none"]
    /\ UNCHANGED <<power, running, p, debugMode, suspendCounter, bpArmed, jt,
                   msgs, nonLife>>

\* if (runLoopCtrl & RL_INSPECT) { inspect(); ...
chkInsp(th) ==
    /\ At(th, "chkInsp")
    /\ IF "RL_INSPECT" \in runLoopCtrl
       THEN /\ Cont(th, <<"clrInsp">>)
            /\ obs' = [obs EXCEPT !.inspReq = "served"]
       ELSE Cont(th, <<"chkBp">>) /\ obs' = obs
    /\ UNCHANGED <<power, running, p, runLoopCtrl, debugMode, suspendCounter,
                   bpArmed, jt, msgs, nonLife>>

\* ... clearControlFlags(RL_INSPECT); }
clrInsp(th) ==
    /\ At(th, "clrInsp")
    /\ Cont(th, <<"chkBp">>)
    /\ runLoopCtrl' = runLoopCtrl \ {"RL_INSPECT"}
    /\ obs' = [obs EXCEPT !.inspReq = "none"]
    /\ UNCHANGED <<power, running, p, debugMode, suspendCounter, bpArmed, jt,
                   msgs, nonLife>>

\* Tracing, then: if (runLoopCtrl & RL_ENABLE_BREAKPOINTS)
\*                    if (cpu.bpManager.shouldStop()) { ...; break; }
chkBp(th) ==
    /\ At(th, "chkBp")
    /\ \E shouldStop \in
            IF "RL_ENABLE_BREAKPOINTS" \in runLoopCtrl /\ bpArmed
            THEN BOOLEAN ELSE {FALSE} :
        IF shouldStop
        THEN /\ Cont(th, <<"threadDidTerminate">>)
             /\ putMessage("MSG_BREAKPOINT_REACHED")
             /\ obs' = [obs EXCEPT !.stopCnt = -1]
        ELSE Cont(th, <<"chkStop">>) /\ UNCHANGED <<msgs, obs>>
    /\ UNCHANGED <<power, running, p, runLoopCtrl, debugMode, suspendCounter,
                   bpArmed, jt, nonLife>>

\* if (runLoopCtrl & RL_STOP) { clearControlFlags(RL_STOP); break; }
chkStop(th) ==
    /\ At(th, "chkStop")
    /\ IF "RL_STOP" \in runLoopCtrl
       THEN /\ Cont(th, <<"threadDidTerminate">>)
            /\ runLoopCtrl' = runLoopCtrl \ {"RL_STOP"}
            /\ obs' = [obs EXCEPT !.stopCnt = -1]
       ELSE Cont(th, <<"exec">>) /\ UNCHANGED <<runLoopCtrl, obs>>
    /\ UNCHANGED <<power, running, p, debugMode, suspendCounter, bpArmed, jt,
                   msgs, nonLife>>

\* Amiga::threadDidTerminate(): p = NULL; pause();
threadDidTerminate(th) ==
    /\ At(th, "threadDidTerminate")
    /\ Cont(th, <<"pause", "pthread_exit">>)
    /\ p' = 0
    /\ UNCHANGED <<power, running, runLoopCtrl, debugMode, suspendCounter,
                   bpArmed, jt, msgs, obs, nonLife>>

\* threadMain(): pthread_exit(NULL)
pthread_exit(th) ==
    /\ At(th, "pthread_exit")
    /\ Cont(th, <<>>)
    /\ UNCHANGED <<power, running, p, runLoopCtrl, debugMode, suspendCounter,
                   bpArmed, jt, msgs, obs, nonLife>>

(***************************************************************************)
(* The host thread calls the public API                                    *)
(***************************************************************************)
\* The calls of the host that switch the emulator on and off
LifeOps == {"powerOn", "powerOff", "run", "pause", "reset"}

\* The calls of the host that talk to a running emulator thread
CtlOps == {"pause", "signalInspect", "signalSnapshot", "debugOn", "debugOff",
           "bpOn", "bpOff"}

Call(op) ==
    /\ stack[Host] = <<>>
    /\ op = "suspend" => suspendCounter < MaxNest
    /\ stack' = [stack EXCEPT ![Host] = <<op>>]
    /\ msgs' = <<>>
    /\ obs' = [obs EXCEPT !.call = op, !.pre = State]
    /\ UNCHANGED <<power, running, p, runLoopCtrl, debugMode, suspendCounter,
                   bpArmed, jt, nonLife>>

HostCall == \E op \in LifeOps : Call(op)

\* Only suspend() and resume() are called
HostCallSR == \E op \in {"suspend", "resume"} : Call(op)

\* Only the run loop is talked to
HostCallRL == \E op \in CtlOps : Call(op)

(***************************************************************************)
(* Amiga::configure() and the calls that change the memory layout          *)
(***************************************************************************)
\* The variables of the state machine except the message log
lifeRest == <<power, running, p, runLoopCtrl, debugMode, suspendCounter,
              bpArmed, stack, jt, obs>>

ConfigOptions == {"VA_AMIGA_MODEL", "VA_CHIP_RAM", "VA_SLOW_RAM",
                  "VA_FAST_RAM", "VA_RT_CLOCK", "VA_CPU_SPEED",
                  "VA_BLITTER_ACCURACY"}

\* The options that enter the memory layout
MemOptions == {"VA_AMIGA_MODEL", "VA_CHIP_RAM", "VA_SLOW_RAM", "VA_FAST_RAM",
               "VA_RT_CLOCK"}

\* The values configure() is called with
CfgValues == {-256, 0, 1, 2, 3, 256, 512, 8256}
MemValues == {-256, 0, 1, 2, 512}
\* ... of which a Ram size is called with the sizes and an enumeration with
\* its small values
MemValuesOf(option) ==
    IF option \in {"VA_AMIGA_MODEL", "VA_RT_CLOCK"}
    THEN {v \in MemValues : 0 <= v /\ v <= 2}
    ELSE {v \in MemValues : v % 256 = 0}

\* enum AmigaModel, in the order of its enumerators
AmigaModelSeq == <<"AMIGA_500", "AMIGA_1000", "AMIGA_2000">>
isAmigaModel(value) == value + 1 \in DOMAIN AmigaModelSeq

\* The outcome of configure(option, value): the new configuration, the
\* messages posted and the value returned
Rejected == [model |-> model, rtc |-> realTimeClock, mem |-> mem,
             speed |-> cpuSpeed, accuracy |-> blitterAccuracy,
             log |-> <<>>, ret |-> FALSE]
Same == [Rejected EXCEPT !.ret = TRUE]
Changed(r) == [r EXCEPT !.log = @ \o <<"MSG_CONFIG">>, !.ret = TRUE]

configureOutcome(option, value) ==
    CASE option = "VA_AMIGA_MODEL" ->
            IF ~isAmigaModel(value) THEN Rejected
            ELSE IF model = AmigaModelSeq[value + 1] THEN Same
            ELSE LET new == AmigaModelSeq[value + 1]
                     rtc == IF new = "AMIGA_2000" THEN TRUE ELSE realTimeClock
                     u == updateMemSrcTable(mem, rtc)
                 IN  Changed([Rejected EXCEPT !.model = new, !.rtc = rtc,
                                              !.mem = u.m, !.log = u.log])
      [] option = "VA_CHIP_RAM" ->
            IF value # 256 /\ value # 512 THEN Rejected
            ELSE LET a == alloc(mem, "chipSize", value, realTimeClock)
                 IN  Changed([Rejected EXCEPT !.mem = a.m, !.log = a.log])
      [] option = "VA_SLOW_RAM" ->
            IF value % 256 # 0 \/ value > 512 THEN Rejected
            ELSE LET a == alloc(mem, "slowSize", value, realTimeClock)
                 IN  Changed([Rejected EXCEPT !.mem = a.m, !.log = a.log])
      [] option = "VA_FAST_RAM" ->
            IF value % 64 # 0 \/ value > 8192 THEN Rejected
            ELSE LET a == alloc(mem, "fastSize", value, realTimeClock)
                 IN  Changed([Rejected EXCEPT !.mem = a.m, !.log = a.log])
      [] option = "VA_RT_CLOCK" ->
            IF (IF realTimeClock THEN 1 ELSE 0) = value THEN Same
            ELSE LET u == updateMemSrcTable(mem, value # 0)
                 IN  Changed([Rejected EXCEPT !.rtc = (value # 0),
                                              !.mem = u.m, !.log = u.log])
      [] option = "VA_CPU_SPEED" ->
            IF value # 1 /\ value # 2 /\ value # 4 THEN Rejected
            ELSE IF cpuSpeed = value THEN Same
            ELSE Changed([Rejected EXCEPT !.speed = value])
      [] option = "VA_BLITTER_ACCURACY" ->
            IF blitterAccuracy = value THEN Same
            ELSE Changed([Rejected EXCEPT !.accuracy = value])

\* Amiga::configure(option, value)
configure(option, value) ==
    \E r \in {configureOutcome(option, value)} :
    /\ model' = r.model
    /\ realTimeClock' = r.rtc
    /\ mem' = r.mem
    /\ cpuSpeed' = r.speed
    /\ blitterAccuracy' = r.accuracy
    /\ msgs' = r.log
    /\ cfgRet' = r.ret
    /\ UNCHANGED <<lifeRest, snapVars, infoVars, otherVars>>

\* Memory::loadRom(file) with a Boot Rom or a Kickstart Rom
loadRom(rom) ==
    \E a1 \in {alloc(mem, "romSize", IF rom = "boot" THEN 8 ELSE 512,
                      realTimeClock)} :
    \E a2 \in {alloc([a1.m EXCEPT !.rom = rom], "womSize",
                      IF rom = "boot" THEN 256 ELSE 0, realTimeClock)} :
    \E a3 \in {alloc(a2.m, "extSize", 0, realTimeClock)} :
        /\ mem' = [a3.m EXCEPT
                        !.womWritten =
                            IF a3.m.womSize = mem.womSize THEN @ ELSE FALSE,
                        !.womData =
                            IF a3.m.womSize = mem.womSize THEN @ ELSE 0]
        /\ msgs' = a1.log \o a2.log \o a3.log
        /\ UNCHANGED <<lifeRest, model, realTimeClock, cpuSpeed,
                       blitterAccuracy, cfgRet, snapVars, infoVars,
                       otherVars>>

\* Memory::loadExt(file)
loadExt ==
    \E a \in {alloc(mem, "extSize", 512, realTimeClock)} :
        /\ mem' = a.m
        /\ msgs' = a.log
        /\ UNCHANGED <<lifeRest, model, realTimeClock, cpuSpeed,
                       blitterAccuracy, cfgRet, snapVars, infoVars,
                       otherVars>>

\* Memory::setExtStart(page) with page 0xE0 or 0xF0
setExtStart(page) ==
    \E u \in {updateMemSrcTable([mem EXCEPT !.extStart = page],
                                 realTimeClock)} :
        /\ mem' = u.m
        /\ msgs' = u.log
        /\ UNCHANGED <<lifeRest, model, realTimeClock, cpuSpeed,
                       blitterAccuracy, cfgRet, snapVars, infoVars,
                       otherVars>>

\* A variant of pokeRom8() / pokeRom16() that leaves the Wom writable
pokeRomNoLock ==
    /\ IF mem.womSize # 0
       THEN \E u \in {updateMemSrcTable(mem, realTimeClock)} :
                mem' = u.m /\ msgs' = u.log
       ELSE UNCHANGED <<mem, msgs>>
    /\ UNCHANGED <<lifeRest, model, realTimeClock, cpuSpeed, blitterAccuracy,
                   cfgRet, snapVars, infoVars, otherVars>>

\* Memory::pokeRom8() / pokeRom16(): a write to the Rom area locks the Wom
pokeRom ==
    /\ IF mem.womSize # 0
       THEN \E u \in {updateMemSrcTable([mem EXCEPT !.womIsLocked = TRUE],
                                         realTimeClock)} :
                mem' = u.m /\ msgs' = u.log
       ELSE UNCHANGED <<mem, msgs>>
    /\ UNCHANGED <<lifeRest, model, realTimeClock, cpuSpeed, blitterAccuracy,
                   cfgRet, snapVars, infoVars, otherVars>>

\* pokeWom8() / pokeWom16() that store the value in a locked Wom as well
pokeWomUnlocked ==
    /\ \E value \in {0, 1} :
           mem' = [mem EXCEPT !.womWritten = TRUE, !.womData = value]
    /\ msgs' = <<>>
    /\ UNCHANGED <<lifeRest, model, realTimeClock, cpuSpeed, blitterAccuracy,
                   cfgRet, snapVars, infoVars, otherVars>>

\* Memory::pokeWom8() / pokeWom16(): the Wom takes the value unless locked
pokeWom ==
    /\ \E value \in {0, 1} :
           mem' = IF mem.womIsLocked THEN mem
                  ELSE [mem EXCEPT !.womWritten = TRUE, !.womData = value]
    /\ msgs' = <<>>
    /\ UNCHANGED <<lifeRest, model, realTimeClock, cpuSpeed, blitterAccuracy,
                   cfgRet, snapVars, infoVars, otherVars>>

\* Memory::poke8() / poke16() at a page of the Rom or of the Wom: the write
\* goes where memSrc sends it
poke(page) ==
    CASE mem.memSrc[page] = "MEM_ROM" -> pokeRom
      [] mem.memSrc[page] = "MEM_WOM" -> pokeWom
      [] OTHER -> FALSE

(***************************************************************************)
(* The snapshot storage                                                    *)
(***************************************************************************)
Range(s) == {s[i] : i \in 1..Len(s)}

\* Amiga::getSnapshot(storage, nr): 0 stands for NULL
getSnapshot(s, nr) == IF nr < Len(s) THEN s[nr + 1] ELSE 0

\* storage.erase(storage.begin() + index)
erase(s, index) == SubSeq(s, 1, index) \o SubSeq(s, index + 2, Len(s))

\* What Amiga::deleteSnapshot(storage, index) leaves of storage s
deleteSnapshotOf(s, index) ==
    IF getSnapshot(s, index) # 0 THEN erase(s, index) ELSE s

\* A variant of takeSnapshot() that makes room at the front of the storage
takeSnapshotEvictNewest ==
    /\ taken < MaxTakes
    /\ taken' = taken + 1
    /\ storage' = <<taken + 1>> \o
                    (IF Len(storage) >= MAX_SNAPSHOTS
                     THEN deleteSnapshotOf(storage, 0) ELSE storage)
    /\ msgs' = <<"MSG_SNAPSHOT_TAKEN">>
    /\ UNCHANGED <<lifeRest, cfgVars, cfgRet, deleted, infoVars, otherVars>>

\* Amiga::takeSnapshot(storage)
takeSnapshot ==
    /\ taken < MaxTakes
    /\ taken' = taken + 1
    /\ storage' = <<taken + 1>> \o
                    (IF Len(storage) >= MAX_SNAPSHOTS
                     THEN deleteSnapshotOf(storage, MAX_SNAPSHOTS - 1)
                     ELSE storage)
    /\ msgs' = <<"MSG_SNAPSHOT_TAKEN">>
    /\ UNCHANGED <<lifeRest, cfgVars, cfgRet, deleted, infoVars, otherVars>>

\* Amiga::deleteSnapshot(storage, index)
deleteSnapshot(index) ==
    /\ deleted < MaxDeletes
    /\ deleted' = deleted + 1
    /\ storage' = deleteSnapshotOf(storage, index)
    /\ msgs' = <<>>
    /\ UNCHANGED <<lifeRest, cfgVars, cfgRet, taken, infoVars, otherVars>>

(***************************************************************************)
(* The info structs: inspect() on the emulator thread, getInfo() on the    *)
(* host                                                                    *)
(***************************************************************************)
\* The emulator thread executes an instruction: the live state changes
execute ==
    /\ wpc = "run"
    /\ clock < MaxClock
    /\ clock' = clock + 1
    /\ UNCHANGED <<lifeVars, cfgVars, cfgRet, snapVars, lock, info, wpc, hpc,
                   result, captures, otherVars>>

\* The emulator thread starts inspect(): Amiga::_inspect() locks the mutex
inspectLock ==
    /\ wpc = "run"
    /\ lock = "none"
    /\ lock' = "worker"
    /\ wpc' = "amigaInfo1"
    /\ captures' = captures \cup {clock}
    /\ UNCHANGED <<lifeVars, cfgVars, cfgRet, snapVars, clock, info, hpc,
                   result, otherVars>>

\* Amiga::_inspect(): info.cpuClock = cpu.clock; info.dmaClock = agnus.clock;
\* then the mutex is unlocked
inspectAmiga ==
    /\ \/ /\ wpc = "amigaInfo1"
          /\ info' = [info EXCEPT !.amiga.cpuClock = clock]
          /\ wpc' = "amigaInfo2"
          /\ lock' = lock
       \/ /\ wpc = "amigaInfo2"
          /\ info' = [info EXCEPT !.amiga.dmaClock = clock]
          /\ wpc' = "amigaUnlock"
          /\ lock' = lock
       \/ /\ wpc = "amigaUnlock"
          /\ lock' = "none"
          /\ wpc' = "cpuInfo1"
          /\ info' = info
    /\ UNCHANGED <<lifeVars, cfgVars, cfgRet, snapVars, clock, hpc, result,
                   captures, otherVars>>

\* CPU::_inspect(): info.pc = pc; info.d[0] = ...; the mutex is not taken
inspectCPU ==
    /\ \/ /\ wpc = "cpuInfo1"
          /\ info' = [info EXCEPT !.cpu.pc = clock]
          /\ wpc' = "cpuInfo2"
       \/ /\ wpc = "cpuInfo2"
          /\ info' = [info EXCEPT !.cpu.d0 = clock]
          /\ wpc' = "run"
    /\ UNCHANGED <<lifeVars, cfgVars, cfgRet, snapVars, clock, lock, hpc,
                   result, captures, otherVars>>

\* Amiga::getInfo() and CPU::getInfo(): lock; result = info; unlock
getInfo ==
    /\ \/ /\ hpc = "idle"
          /\ lock = "none"
          /\ lock' = "host"
          /\ \E of \in {"amiga", "cpu"} :
                /\ hpc' = of
                /\ result' = [of |-> of, a |-> 0, b |-> 0]
       \/ /\ hpc = "amiga"
          /\ result' = [result EXCEPT !.a = info.amiga.cpuClock,
                                       !.b = info.amiga.dmaClock]
          /\ hpc' = "unlock"
          /\ lock' = lock
       \/ /\ hpc = "cpu"
          /\ result' = [result EXCEPT !.a = info.cpu.pc, !.b = info.cpu.d0]
          /\ hpc' = "unlock"
          /\ lock' = lock
       \/ /\ hpc = "unlock"
          /\ lock' = "none"
          /\ hpc' = "idle"
          /\ result' = result
    /\ UNCHANGED <<lifeVars, cfgVars, cfgRet, snapVars, clock, info, wpc,
                   captures, otherVars>>

\* Paula::getInfo(): info.intreq = intreq; info.intena = intena;
getInfoPaula ==
    /\ \/ /\ hpc = "idle"
          /\ result' = [of |-> "paula", a |-> clock, b |-> 0]
          /\ hpc' = "paula"
       \/ /\ hpc = "paula"
          /\ result' = [result EXCEPT !.b = clock]
          /\ hpc' = "idle"
    /\ UNCHANGED <<lifeVars, cfgVars, cfgRet, snapVars, clock, lock, info, wpc,
                   captures, otherVars>>

(***************************************************************************)
(* Memory accesses of the Cpu: peek8(), peek16<BUS_CPU>(), poke8(),        *)
(* poke16<BUS_CPU>()                                                       *)
(***************************************************************************)
\* The state the memory accesses leave alone
busRest ==
    <<lifeVars, cfgVars, cfgRet, snapVars, infoVars, ld, blt, chipVars>>

\* One page of Chip Ram, Fast Ram, the CIAs, Slow Ram, the custom registers,
\* the extended Rom and the Kickstart Rom of a fully equipped Amiga 500
BusPages == {0, 32, 160, 192, 200, 224, 248}

\* The sources whose case in peek8() / peek16() / poke16() has no call of
\* agnus.executeUntilBusIsFree()
NoWaitSources == {"MEM_FAST", "MEM_ROM", "MEM_WOM", "MEM_EXT"}

\* Does the case of source src in operation op call executeUntilBusIsFree()?
Waits(op, src) ==
    CASE op = "poke8" -> FALSE
      [] OTHER -> src \notin NoWaitSources

\* The source of the page of access a, and whether a reads a custom register
\* peekCustom16() has no case for
SrcOf(a) == mem.memSrc[a.page]
IsFaulty(a) == SrcOf(a) = "MEM_OCS" /\ a.custom = "COLOR00"

\* A variant of peekCustomFaulty16() that returns the old value of the data
\* bus or-ed with the DMA data
peekCustomFaultyOr16(owner, value) ==
    Or(dataBus, IF owner # "BUS_NONE" THEN value ELSE 0)

\* Memory::peekCustomFaulty16(): the value returned
peekCustomFaulty16(owner, value) ==
    IF owner # "BUS_NONE" THEN value ELSE AllOnes

\* The DMA slots a read can fall into: free, or owned with some data
Slots == {[owner |-> "BUS_NONE", value |-> 0]} \cup
         [owner : {"BUS_BLITTER"}, value : Word]

\* The word a peek of access a reads; d is what a CIA or a readable custom
\* register delivers, slot is the current DMA slot
Read(a, d, slot) ==
    LET src == SrcOf(a)
    IN  CASE src \in {"MEM_CHIP", "MEM_SLOW", "MEM_FAST"} -> ram[src]
          [] src \in {"MEM_ROM", "MEM_WOM"} -> AllOnes
          [] src = "MEM_CIA" -> d
          [] src = "MEM_OCS" ->
                IF IsFaulty(a) THEN peekCustomFaulty16(slot.owner, slot.value)
                               ELSE d
          [] OTHER -> 0

\* A variant of the return statement that returns the data bus as it was
\* before the read
peekResultStale(src, v) ==
    IF src \in {"MEM_CHIP", "MEM_SLOW"} THEN dataBus ELSE v

\* dataBus = READ_...(addr); return dataBus;
peekResult(src, v) == v

\* The Cpu starts an access: the dispatch on memSrc[addr >> 16]. Whether the
\* bus is free at that moment depends on the DMA slot the access falls into.
beginAccess(op, page, odd, value, custom, again) ==
    /\ cpc = "idle"
    /\ again => acc = [op |-> "peek16", page |-> page, odd |-> odd,
                       value |-> value, custom |-> custom] /\ op = "peek16"
    /\ acc' = [op |-> op, page |-> page, odd |-> odd, value |-> value,
               custom |-> custom]
    /\ cpc' = IF op = "peek16" /\ odd THEN "aborted"
              ELSE IF Waits(op, mem.memSrc[page]) THEN "wait" ELSE "touch"
    /\ bus' = [BusObsInit EXCEPT !.waited = Waits(op, mem.memSrc[page]),
                                 !.again = again,
                                 !.first = IF again THEN ret ELSE 0]
    /\ blocked' \in BOOLEAN
    /\ msgs' = <<>>
    /\ UNCHANGED <<dataBus, ram, busOwner, busValue, ret, lifeRest, cfgVars,
                   cfgRet, snapVars, infoVars, ld, blt, chipVars>>

\* agnus.executeUntilBusIsFree(): Agnus executes DMA cycles until the bus is
\* free; a cycle of the Blitter can write the word the Cpu is about to access
executeUntilBusIsFree ==
    /\ cpc = "wait"
    /\ IF blocked
       THEN /\ \E b \in (IF bus.dma + 1 >= MaxWait THEN {FALSE} ELSE BOOLEAN),
                  w \in Word :
                /\ blocked' = b
                /\ ram' = [ram EXCEPT !["MEM_CHIP"] = w]
                /\ bus' = [bus EXCEPT !.dma = @ + 1,
                              !.wrote = @ \/ (w # ram["MEM_CHIP"]
                                               /\ SrcOf(acc) = "MEM_CHIP")]
            /\ cpc' = cpc
       ELSE /\ cpc' = "touch"
            /\ UNCHANGED <<ram, blocked, bus>>
    /\ UNCHANGED <<dataBus, busOwner, busValue, acc, ret, busRest>>

\* peek8() and peek16<BUS_CPU>(): the read and the return
peek ==
    /\ cpc = "touch"
    /\ acc.op \in {"peek8", "peek16"}
    /\ cpc' = "idle"
    /\ \E d \in (IF SrcOf(acc) = "MEM_CIA" \/
                     (SrcOf(acc) = "MEM_OCS" /\ ~IsFaulty(acc))
                  THEN Word ELSE {0}),
          slot \in (IF IsFaulty(acc) THEN Slots
                    ELSE {[owner |-> busOwner, value |-> busValue]}) :
       LET src == SrcOf(acc)
           v == Read(acc, d, slot)
       IN  /\ busOwner' = slot.owner
           /\ busValue' = slot.value
           /\ ret' = peekResult(src, v)
           /\ dataBus' = IF \/ src \in {"MEM_ROM", "MEM_WOM", "MEM_EXT"}
                            \/ (src = "MEM_FAST" /\ acc.op = "peek16")
                         THEN dataBus ELSE v
           /\ ram' = IF IsFaulty(acc) THEN [ram EXCEPT !["COLOR00"] = dataBus]
                                      ELSE ram
    /\ bus' = [bus EXCEPT !.busy = blocked]
    /\ blocked' = FALSE
    /\ UNCHANGED <<acc, busRest>>

\* poke8() and poke16<BUS_CPU>(): the write
poke1 ==
    /\ cpc = "touch"
    /\ acc.op \in {"poke8", "poke16"}
    /\ cpc' = "idle"
    /\ LET src == SrcOf(acc)
       IN  /\ dataBus' = IF \/ acc.op = "poke16" /\ Waits("poke16", src)
                            \/ src = "MEM_OCS"
                         THEN acc.value ELSE dataBus
           /\ ram' = IF src \in {"MEM_CHIP", "MEM_SLOW", "MEM_FAST"} /\ ~acc.odd
                     THEN [ram EXCEPT ![src] = acc.value]
                     ELSE IF IsFaulty(acc)
                     THEN [ram EXCEPT !["COLOR00"] = acc.value]
                     ELSE ram
           /\ bus' = [bus EXCEPT !.busy = blocked,
                                 !.unaligned = acc.odd /\ src # "MEM_EXT"
                                                /\ src # "MEM_UNMAPPED"]
    /\ blocked' = FALSE
    /\ UNCHANGED <<busOwner, busValue, acc, ret, busRest>>

(***************************************************************************)
(* Specifications                                                          *)
(***************************************************************************)
\* The state after construction, for each configuration of model and memory
Init ==
    /\ power = FALSE
    /\ running = FALSE
    /\ p = 0
    /\ runLoopCtrl = {}
    /\ debugMode = FALSE
    /\ suspendCounter = 0
    /\ bpArmed = FALSE
    /\ stack = [t \in Threads |-> <<>>]
    /\ jt = [t \in Threads |-> 0]
    /\ msgs = <<>>
    /\ obs = ObsInit
    /\ model \in AmigaModels
    /\ \E chip \in {0, 512}, rom \in {"none", "boot", "kick"} :
            mem = MemoryWith(chip, rom, FALSE)
    /\ InitConfig

\* A running emulator: the state after powerOn() and run() of an Amiga 500
InitRunning ==
    /\ power = TRUE
    /\ running = TRUE
    /\ p = 1
    /\ runLoopCtrl = {}
    /\ debugMode = TRUE
    /\ suspendCounter = 0
    /\ bpArmed = FALSE
    /\ stack = [t \in Threads |-> IF t = 1 THEN <<"start">> ELSE <<>>]
    /\ jt = [t \in Threads |-> 0]
    /\ msgs = <<"MSG_RUN">>
    /\ obs = [ObsInit EXCEPT !.call = "run", !.pre = "Paused"]
    /\ model = "AMIGA_500"
    /\ mem = MemoryWith(512, "kick", FALSE)
    /\ InitConfig

\* The statements of the suspend() / resume() protocol and of the thread
StepSR(th) ==
    \/ run(th) \/ _run(th) \/ pause(th) \/ _pauseSig(th) \/ _pauseJoin(th)
    \/ _pauseWait(th) \/ _pauseTail(th) \/ suspend(th) \/ suspendInc(th)
    \/ resume(th) \/ start(th) \/ exec(th) \/ chk0(th) \/ chkSnap(th)
    \/ chkInsp(th) \/ chkBp(th) \/ chkStop(th) \/ threadDidTerminate(th)
    \/ pthread_exit(th)

\* The statements of powerOn(), powerOff() and reset()
StepLife(th) ==
    \/ powerOn(th) \/ powerOff(th) \/ _powerOff(th) \/ reset(th)
    \/ resetBody(th)

\* The statements of the run loop and of the calls that set its flags
StepRL(th) ==
    \/ pause(th) \/ _pauseSig(th) \/ _pauseJoin(th) \/ _pauseWait(th)
    \/ _pauseTail(th) \/ start(th) \/ exec(th) \/ chk0(th)
    \/ chkSnap(th) \/ clrSnap(th) \/ chkInsp(th) \/ clrInsp(th) \/ chkBp(th)
    \/ chkStop(th) \/ threadDidTerminate(th) \/ pthread_exit(th)
    \/ signalInspect(th) \/ signalSnapshot(th) \/ setDebugMode(th)
    \/ setBreakpoints(th)

Next == HostCall \/ \E th \in Threads : StepSR(th) \/ StepLife(th)

NextSR == HostCallSR \/ \E th \in Threads : StepSR(th)

NextRL == HostCallRL \/ \E th \in Threads : StepRL(th)

\* powerOn(), powerOff(), run(), pause() and reset() from the constructed
\* emulator
Spec == Init /\ [][Next]_vars

\* suspend() and resume() only, from a running emulator
SpecSR == InitRunning /\ [][NextSR]_vars

\* The run loop and its control flags, from a running emulator
SpecRL == InitRunning /\ [][NextRL]_vars

\* A constructed emulator whose state machine is at rest, with the OVL line
\* of CIA A at the given level
InitWith(ovl) ==
    /\ power = FALSE
    /\ running = FALSE
    /\ p = 0
    /\ runLoopCtrl = {}
    /\ debugMode = FALSE
    /\ suspendCounter = 0
    /\ bpArmed = FALSE
    /\ stack = [t \in Threads |-> <<>>]
    /\ jt = [t \in Threads |-> 0]
    /\ msgs = <<>>
    /\ obs = ObsInit
    /\ model = "AMIGA_500"
    /\ mem = MemoryWith(0, "none", ovl)
    /\ InitConfig

InitCfg == InitWith(TRUE)

InitMem == \E ovl \in BOOLEAN : InitWith(ovl)

NextCfg == \E option \in ConfigOptions, value \in CfgValues :
                configure(option, value)

NextMem ==
    \/ \E option \in MemOptions : \E value \in MemValuesOf(option) :
            configure(option, value)
    \/ \E rom \in {"boot", "kick"} : loadRom(rom)
    \/ loadExt
    \/ \E page \in {224, 240} : setExtStart(page)
    \/ \E page \in {0, 248, 252} : poke(page)

\* The calls that decide what the pages 0x00 ... 0x1F and 0xF8 ... 0xFF of
\* the table decode to
NextRom ==
    \/ \E value \in {256, 512} : configure("VA_CHIP_RAM", value)
    \/ \E value \in {0, 1, 2} : configure("VA_AMIGA_MODEL", value)
    \/ \E rom \in {"boot", "kick"} : loadRom(rom)
    \/ loadExt
    \/ \E page \in {0, 248, 252} : poke(page)

\* A fully equipped Amiga 500 with a Kickstart Rom, an Extended Rom and a
\* real-time clock, OVL low, at rest
InitBus ==
    /\ power = FALSE
    /\ running = FALSE
    /\ p = 0
    /\ runLoopCtrl = {}
    /\ debugMode = FALSE
    /\ suspendCounter = 0
    /\ bpArmed = FALSE
    /\ stack = [t \in Threads |-> <<>>]
    /\ jt = [t \in Threads |-> 0]
    /\ msgs = <<>>
    /\ obs = ObsInit
    /\ model = "AMIGA_500"
    /\ realTimeClock = TRUE
    /\ mem = updateMemSrcTable([MemoryWith(512, "kick", FALSE) EXCEPT
                                    !.slowSize = 512, !.fastSize = 512,
                                    !.extSize = 512], TRUE).m
    /\ cpuSpeed = 1
    /\ blitterAccuracy = 0
    /\ cfgRet = TRUE
    /\ storage = <<>>
    /\ taken = 0
    /\ deleted = 0
    /\ clock = 0
    /\ lock = "none"
    /\ info = [amiga |-> [cpuClock |-> 0, dmaClock |-> 0],
               cpu |-> [pc |-> 0, d0 |-> 0]]
    /\ wpc = "run"
    /\ hpc = "idle"
    /\ result = [of |-> "none", a |-> 0, b |-> 0]
    /\ captures = {0}
    /\ BusInit
    /\ ld = LoadInit
    /\ blt = BltInit
    /\ ChipInit

NextBus ==
    \/ \E op \in {"peek8", "peek16", "poke8", "poke16"}, page \in BusPages,
          odd \in BOOLEAN, value \in Word, custom \in {"DMACONR", "COLOR00"},
          again \in BOOLEAN :
            /\ odd => op \in {"peek16", "poke16"}
            /\ value # 0 => op \in {"poke8", "poke16"}
            /\ custom = "COLOR00" => mem.memSrc[page] = "MEM_OCS"
            /\ beginAccess(op, page, odd, value, custom, again)
    \/ executeUntilBusIsFree
    \/ peek
    \/ poke1

\* The memory accesses of the Cpu on that machine
SpecBus == InitBus /\ [][NextBus]_vars

(***************************************************************************)
(* Loading the memory from a snapshot: Memory::didLoadFromBuffer()         *)
(***************************************************************************)
\* va_config.h leaves NDEBUG undefined: assert() is compiled in
NDEBUG == FALSE

\* The size fields a snapshot can hold for a region, in KB: none, the
\* largest size accepted, and one that is too large
LoadSizes(r) == {0, RegionLimit(r), RegionLimit(r) + 1}

\* The positions of the regions whose size field is out of range
Corrupt(buffer) ==
    {i \in 1..Len(Regions) : buffer[Regions[i]] > RegionLimit(Regions[i])}

\* The checked sizes: the checks run in the order of Regions, each sets a
\* size that is too large to 0, and assert(false) ends the run at the first
CheckedSizes(buffer) ==
    LET first == CHOOSE i \in Corrupt(buffer) :
                     \A j \in Corrupt(buffer) : i <= j
    IN  IF Corrupt(buffer) = {} THEN buffer
        ELSE IF NDEBUG
             THEN [r \in RegionSet |->
                      IF buffer[r] > RegionLimit(r) THEN 0 ELSE buffer[r]]
             ELSE [buffer EXCEPT ![Regions[first]] = 0]

\* size_t Memory::didLoadFromBuffer(uint8_t *buffer); the allocations succeed
didLoadFromBuffer(buffer) ==
    /\ ld.pc # "aborted"
    /\ LET size == CheckedSizes(buffer)
           asserted == Corrupt(buffer) # {} /\ ~NDEBUG
       IN  ld' = [ld EXCEPT
                      !.size = size,
                      !.ptr = IF asserted THEN @
                              ELSE [r \in RegionSet |-> size[r] # 0],
                      !.buffer = buffer,
                      !.pc = IF asserted THEN "aborted" ELSE "loaded"]
    /\ UNCHANGED <<lifeVars, cfgVars, cfgRet, snapVars, infoVars, busVars, blt,
                   chipVars>>

NextLoad ==
    \E rom \in LoadSizes("rom"), wom \in LoadSizes("wom"),
       ext \in LoadSizes("ext"), chip \in LoadSizes("chip"),
       slow \in LoadSizes("slow"), fast \in LoadSizes("fast") :
        didLoadFromBuffer([r \in RegionSet |->
            CASE r = "rom" -> rom [] r = "wom" -> wom [] r = "ext" -> ext
              [] r = "chip" -> chip [] r = "slow" -> slow
              [] r = "fast" -> fast])

\* Snapshots with any size fields loaded one after the other
SpecLoad == InitBus /\ [][NextLoad]_vars

(***************************************************************************)
(* Memory::alloc() between the loads                                       *)
(***************************************************************************)
\* The regions alloc() is called for here
AllocRegions == {"chip", "slow"}

\* The sizes asked for, in KB
AllocSizes == {0, 256, 512}

KB(x) == x * 1024

\* The three assertions at the head of Memory::alloc() for region r
AllocAsserts(m, r) ==
    /\ (~m.ptr[r]) <=> (m.size[r] = 0)
    /\ (~m.ptr[r]) <=> (m.mask[r] = 0)
    /\ m.ptr[r] <=> (m.mask[r] = KB(m.size[r]) - 1)

\* Memory::alloc(bytes, ptr, size, mask) behind its assertions: nothing to
\* do for the size the region has; otherwise the old memory is deleted and,
\* for bytes > 0, new memory allocated (ok: operator new succeeds)
allocBody(m, r, kb, ok) ==
    LET d == IF m.ptr[r]
             THEN [m EXCEPT !.ptr[r] = FALSE, !.size[r] = 0, !.mask[r] = 0]
             ELSE m
    IN  IF kb = m.size[r] THEN [m EXCEPT !.pc = "allocated"]
        ELSE IF kb # 0 /\ ~ok THEN [d EXCEPT !.pc = "failed"]
        ELSE IF kb # 0
        THEN [d EXCEPT !.ptr[r] = TRUE, !.size[r] = kb,
                       !.mask[r] = KB(kb) - 1, !.pc = "allocated"]
        ELSE [d EXCEPT !.pc = "allocated"]

\* bool Memory::alloc(size_t bytes, uint8_t *&ptr, size_t &size,
\* uint32_t &mask) for region r: a failed assertion ends the program
allocRegion(r, kb, ok) ==
    /\ ld.pc # "aborted"
    /\ ld' = IF ~AllocAsserts(ld, r) /\ ~NDEBUG
             THEN [ld EXCEPT !.pc = "aborted"]
             ELSE allocBody(ld, r, kb, ok)
    /\ UNCHANGED <<lifeVars, cfgVars, cfgRet, snapVars, infoVars, busVars, blt,
                   chipVars>>

\* didLoadFromBuffer() when operator new fails for the regions outside got:
\* `new (std::nothrow)` returns NULL, the result is not looked at, and
\* reader.copy() is called with the NULL pointer and the size of the region.
\* What the copy to NULL does is undefined: the program ends (crash) or goes
\* on.  The masks are not among the items a snapshot holds.
didLoadFromBufferNoMem(buffer, got, crash) ==
    /\ ld.pc # "aborted"
    /\ LET size == CheckedSizes(buffer)
           asserted == Corrupt(buffer) # {} /\ ~NDEBUG
           lost == {r \in RegionSet : size[r] # 0} \ got
       IN  ld' = [ld EXCEPT
                      !.size = size,
                      !.ptr = IF asserted THEN @
                              ELSE [r \in RegionSet |-> size[r] # 0 /\ r \in got],
                      !.buffer = buffer,
                      !.pc = IF asserted \/ (lost # {} /\ crash)
                             THEN "aborted" ELSE "loaded"]
    /\ UNCHANGED <<lifeVars, cfgVars, cfgRet, snapVars, infoVars, busVars, blt,
                   chipVars>>

\* Snapshots that hold Chip Ram and Slow Ram of any size, loaded with and
\* without memory for Chip Ram, and calls of alloc() for these regions
NextAlloc ==
    \/ \E chip \in LoadSizes("chip"), slow \in LoadSizes("slow"),
          got \in {RegionSet, RegionSet \ {"chip"}}, crash \in BOOLEAN :
          didLoadFromBufferNoMem([r \in RegionSet |->
              IF r = "chip" THEN chip ELSE IF r = "slow" THEN slow ELSE 0],
              got, crash)
    \/ \E r \in AllocRegions, kb \in AllocSizes, ok \in BOOLEAN :
          allocRegion(r, kb, ok)

\* Allocations and snapshot loads in any order
SpecAlloc == InitBus /\ [][NextAlloc]_vars

(***************************************************************************)
(* The slow Blitter: Blitter::beginSlowCopyBlit() and Blitter::exec()      *)
(***************************************************************************)
\* The micro programs of full execution: copyBlitInstr[nr + 1][1] without
\* and copyBlitInstr[nr + 1][2] with fill, an instruction being the set of
\* its flags
copyBlitInstr == <<
    \* 0
    <<<<{"BUSIDLE"}, {"BUSIDLE", "REPEAT"}, {}, {"BLTDONE"}>>,
       <<{"BUSIDLE"}, {"BUSIDLE", "REPEAT"}, {}, {"BLTDONE"}>>>>,
    \* 1
    <<<<{"HOLD_D", "BUSIDLE"}, {"WRITE_D", "HOLD_A", "HOLD_B", "REPEAT"},
         {"HOLD_D"}, {"WRITE_D", "BLTDONE"}>>,
       <<{"FILL", "HOLD_D", "BUSIDLE"}, {"WRITE_D"},
         {"BUSIDLE", "HOLD_A", "HOLD_B", "REPEAT"}, {"FILL", "HOLD_D"},
         {"WRITE_D", "BLTDONE"}>>>>,
    \* 2
    <<<<{"HOLD_D", "BUSIDLE"}, {"FETCH_C", "HOLD_A", "HOLD_B", "REPEAT"},
         {"HOLD_D"}, {"BLTDONE"}>>,
       <<{"FILL", "HOLD_D", "BUSIDLE"},
         {"FETCH_C", "HOLD_A", "HOLD_B", "REPEAT"}, {"FILL", "HOLD_D"},
         {"BLTDONE"}>>>>,
    \* 3
    <<<<{"HOLD_D", "BUSIDLE"}, {"FETCH_C", "HOLD_A", "HOLD_B"},
         {"WRITE_D", "REPEAT"}, {"HOLD_D"}, {"WRITE_D", "BLTDONE"}>>,
       <<{"FILL", "HOLD_D", "BUSIDLE"}, {"FETCH_C", "HOLD_A", "HOLD_B"},
         {"WRITE_D", "REPEAT"}, {"FILL", "HOLD_D"}, {"WRITE_D", "BLTDONE"}>>>>,
    \* 4
    <<<<{"HOLD_D", "BUSIDLE"}, {"FETCH_B", "HOLD_A"},
         {"HOLD_B", "BUSIDLE", "REPEAT"}, {"HOLD_D"}, {"BLTDONE"}>>,
       <<{"FILL", "HOLD_D", "BUSIDLE"}, {"FETCH_B", "HOLD_A"},
         {"HOLD_B", "BUSIDLE", "REPEAT"}, {"FILL", "HOLD_D"}, {"BLTDONE"}>>>>,
    \* 5
    <<<<{"BUSIDLE", "HOLD_D"}, {"FETCH_B", "HOLD_A"},
         {"WRITE_D", "HOLD_B", "REPEAT"}, {"HOLD_D"}, {"WRITE_D", "BLTDONE"}>>,
       <<{"BUSIDLE", "FILL", "HOLD_D"}, {"FETCH_B", "HOLD_A"},
         {"WRITE_D", "HOLD_B"}, {"BUSIDLE", "REPEAT"}, {"FILL", "HOLD_D"},
         {"WRITE_D", "BLTDONE"}>>>>,
    \* 6
    <<<<{"BUSIDLE", "HOLD_D"}, {"FETCH_B", "HOLD_A"},
         {"FETCH_C", "HOLD_B", "REPEAT"}, {"HOLD_D"}, {"BLTDONE"}>>,
       <<{"BUSIDLE", "FILL", "HOLD_D"}, {"FETCH_B", "HOLD_A"},
         {"FETCH_C", "HOLD_B", "REPEAT"}, {"FILL", "HOLD_D"}, {"BLTDONE"}>>>>,
    \* 7
    <<<<{"BUSIDLE", "HOLD_D"}, {"FETCH_B", "HOLD_A"}, {"FETCH_C", "HOLD_B"},
         {"WRITE_D", "REPEAT"}, {"HOLD_D"}, {"WRITE_D", "BLTDONE"}>>,
       <<{"BUSIDLE", "FILL", "HOLD_D"}, {"FETCH_B", "HOLD_A"},
         {"FETCH_C", "HOLD_B"}, {"WRITE_D", "REPEAT"}, {"FILL", "HOLD_D"},
         {"WRITE_D", "BLTDONE"}>>>>,
    \* 8
    <<<<{"FETCH_A", "HOLD_D"}, {"HOLD_A", "HOLD_B", "BUSIDLE", "REPEAT"},
         {"HOLD_D"}, {"BLTDONE"}>>,
       <<{"FETCH_A", "FILL", "HOLD_D"},
         {"HOLD_A", "HOLD_B", "BUSIDLE", "REPEAT"}, {"FILL", "HOLD_D"},
         {"BLTDONE"}>>>>,
    \* 9
    <<<<{"FETCH_A", "HOLD_D"}, {"WRITE_D", "HOLD_A", "HOLD_B", "REPEAT"},
         {"HOLD_D"}, {"WRITE_D", "BLTDONE"}>>,
       <<{"FETCH_A", "FILL", "HOLD_D"}, {"WRITE_D", "HOLD_A", "HOLD_B"},
         {"BUSIDLE", "REPEAT"}, {"FILL", "HOLD_D"}, {"WRITE_D", "BLTDONE"}>>>>,
    \* A
    <<<<{"FETCH_A", "HOLD_D"}, {"FETCH_C", "HOLD_A", "HOLD_B", "REPEAT"},
         {"HOLD_D"}, {"BLTDONE"}>>,
       <<{"FETCH_A", "FILL", "HOLD_D"},
         {"FETCH_C", "HOLD_A", "HOLD_B", "REPEAT"}, {"FILL", "HOLD_D"},
         {"BLTDONE"}>>>>,
    \* B
    <<<<{"FETCH_A", "HOLD_D"}, {"FETCH_C", "HOLD_A", "HOLD_B"},
         {"WRITE_D", "REPEAT"}, {"HOLD_D"}, {"WRITE_D", "BLTDONE"}>>,
       <<{"FETCH_A", "FILL", "HOLD_D"}, {"FETCH_C", "HOLD_A", "HOLD_B"},
         {"WRITE_D", "REPEAT"}, {"FILL", "HOLD_D"}, {"WRITE_D", "BLTDONE"}>>>>,
    \* C
    <<<<{"FETCH_A", "HOLD_D"}, {"FETCH_B", "HOLD_A"},
         {"HOLD_B", "BUSIDLE", "REPEAT"}, {"HOLD_D"}, {"BLTDONE"}>>,
       <<{"FETCH_A", "FILL", "HOLD_D"}, {"FETCH_B", "HOLD_A"},
         {"HOLD_B", "BUSIDLE", "REPEAT"}, {"FILL", "HOLD_D"}, {"BLTDONE"}>>>>,
    \* D
    <<<<{"FETCH_A", "HOLD_D"}, {"FETCH_B", "HOLD_A"},
         {"WRITE_D", "HOLD_B", "REPEAT"}, {"HOLD_D"}, {"WRITE_D", "BLTDONE"}>>,
       <<{"FETCH_A", "FILL", "HOLD_D"}, {"FETCH_B", "HOLD_A"},
         {"WRITE_D", "HOLD_B"}, {"BUSIDLE", "REPEAT"}, {"FILL", "HOLD_D"},
         {"WRITE_D", "BLTDONE"}>>>>,
    \* E
    <<<<{"FETCH_A", "HOLD_D"}, {"FETCH_B", "HOLD_A"},
         {"FETCH_C", "HOLD_B", "REPEAT"}, {"HOLD_D"}, {"BLTDONE"}>>,
       <<{"FETCH_A", "FILL", "HOLD_D"}, {"FETCH_B", "HOLD_A"},
         {"FETCH_C", "HOLD_B", "REPEAT"}, {"FILL", "HOLD_D"}, {"BLTDONE"}>>>>,
    \* F
    <<<<{"FETCH_A", "HOLD_D"}, {"FETCH_B", "HOLD_A"}, {"FETCH_C", "HOLD_B"},
         {"WRITE_D", "REPEAT"}, {"HOLD_D"}, {"WRITE_D", "BLTDONE"}>>,
       <<{"FETCH_A", "FILL", "HOLD_D"}, {"FETCH_B", "HOLD_A"},
         {"FETCH_C", "HOLD_B"}, {"WRITE_D", "REPEAT"}, {"HOLD_D"},
         {"WRITE_D", "BLTDONE"}>>>>
>>

\* The state the Blitter leaves alone
bltRest ==
    <<lifeVars, cfgVars, cfgRet, snapVars, infoVars, busVars, ld, chipVars>>

\* setXCounter() that applies the last word mask only where the first word
\* mask does not apply
setXCounterEither(b, value) ==
    [b EXCEPT !.xCounter = value,
              !.mask = IF value = b.bltsizeW THEN {"bltafwm"}
                       ELSE IF value = 1 THEN {"bltalwm"} ELSE {}]

\* void Blitter::setXCounter(uint16_t value): the counter is set and the
\* mask of the iteration is chosen: BLTAFWM in the first iteration of a row,
\* BLTALWM in the last
setXCounter(b, value) ==
    [b EXCEPT !.xCounter = value,
              !.mask = (IF value = b.bltsizeW THEN {"bltafwm"} ELSE {}) \cup
                       (IF value = 1 THEN {"bltalwm"} ELSE {})]

\* void Blitter::beginSlowCopyBlit(): the counters are set and stage D of
\* the pipeline is locked
beginSlowCopyBlit(b) ==
    [setXCounter(b, b.bltsizeW) EXCEPT !.yCounter = b.bltsizeH,
                                       !.lockD = TRUE]

\* A write to BLTSIZE starts the blit: the zero flag is set, the micro
\* program starts at its first instruction
startBlit(nr, fill, w, h) ==
    /\ blt.state # "run"
    /\ blt' = beginSlowCopyBlit([blt EXCEPT
                  !.state = "run", !.nr = nr, !.fill = fill,
                  !.bltsizeW = w, !.bltsizeH = h, !.bltpc = 0,
                  !.bzero = TRUE, !.written = 0, !.ended = 0, !.nz = FALSE,
                  !.fills = 0, !.fetchedA = 0, !.heldA = 0, !.posA = 0,
                  !.maskA = {}])
    /\ UNCHANGED bltRest

\* The instruction at bltpc with a write to D that fetches C as well
InstrFetchWrite(b) ==
    LET i == copyBlitInstr[b.nr + 1][IF b.fill THEN 2 ELSE 1][b.bltpc + 1]
    IN  IF "WRITE_D" \in i THEN i \cup {"FETCH_C"} ELSE i

\* The instruction serviceEvent() executes next
Instr(b) == copyBlitInstr[b.nr + 1][IF b.fill THEN 2 ELSE 1][b.bltpc + 1]

\* exec(): the instruction needs the bus, or needs the bus to be free
NeedsBus(b, instr) ==
    IF "WRITE_D" \in instr
    THEN TRUE
    ELSE instr \cap {"FETCH_A", "FETCH_B", "FETCH_C", "BUS", "BUSIDLE"} # {}

\* exec(), WRITE_D with a write that ignores the lock of stage D
execWriteDUnlocked(b, instr) ==
    IF "WRITE_D" \in instr THEN [b EXCEPT !.written = @ + 1] ELSE b

\* exec(), WRITE_D: agnus.blitterWrite(bltdpt, dhold) unless D is locked
execWriteD(b, instr) ==
    IF "WRITE_D" \in instr /\ ~b.lockD
    THEN [b EXCEPT !.written = @ + 1]
    ELSE b

\* exec(), FETCH_A: anew = agnus.blitterRead(bltapt)
execFetchA(b, instr) ==
    IF "FETCH_A" \in instr THEN [b EXCEPT !.fetchedA = @ + 1] ELSE b

\* exec(), HOLD_A: ahold is made of aold and anew & mask; the word in anew
\* is the one the last FETCH_A has read
execHoldA(b, instr) ==
    IF "HOLD_A" \in instr
    THEN [b EXCEPT !.heldA = @ + 1, !.maskA = b.mask,
                   !.posA = IF b.fetchedA = 0 THEN 0
                            ELSE ((b.fetchedA - 1) % b.bltsizeW) + 1]
    ELSE b

\* exec(), HOLD_D with a zero flag that follows the last dhold
execHoldDLast(b, instr, d) ==
    IF "HOLD_D" \in instr
    THEN [b EXCEPT !.dhold = d, !.bzero = (d = 0), !.nz = @ \/ d # 0,
                   !.fills = IF "FILL" \in instr /\ ~b.lockD THEN 1 ELSE 0]
    ELSE b

\* exec(), HOLD_D: d is what the minterm and fill logic produce; doFill() is
\* called if the instruction has the FILL flag and stage D is not locked
execHoldD(b, instr, d) ==
    IF "HOLD_D" \in instr
    THEN [b EXCEPT !.dhold = d, !.bzero = IF d # 0 THEN FALSE ELSE @,
                   !.nz = @ \/ d # 0,
                   !.fills = IF "FILL" \in instr /\ ~b.lockD THEN 1 ELSE 0]
    ELSE b

\* exec(), REPEAT: stage D is unlocked; back to instruction 0 unless the
\* last word of the last line is done (then signalEnd())
execRepeat(b, instr) ==
    IF "REPEAT" \notin instr THEN b
    ELSE IF b.xCounter > 1
         THEN [setXCounter(b, b.xCounter - 1) EXCEPT
                   !.lockD = FALSE, !.bltpc = 0]
         ELSE IF b.yCounter > 1
              THEN [setXCounter(b, b.bltsizeW) EXCEPT
                        !.lockD = FALSE, !.bltpc = 0, !.yCounter = @ - 1]
              ELSE [b EXCEPT !.lockD = FALSE]

\* exec(), BLTDONE: endBlit()
execBltDone(b, instr) ==
    IF "BLTDONE" \in instr
    THEN [b EXCEPT !.state = "done", !.ended = @ + 1]
    ELSE b

\* template <uint16_t instr> void Blitter::exec(), called for the instruction
\* at bltpc in a cycle of the Blitter; granted says whether the bus is given
\* to the Blitter (or is free) when the instruction asks for it
bltExec ==
    /\ blt.state = "run"
    /\ LET instr == Instr(blt)
       IN  \E granted \in (IF NeedsBus(blt, instr) THEN BOOLEAN ELSE {TRUE}),
              d \in (IF "HOLD_D" \in instr THEN Word ELSE {blt.dhold}) :
               blt' = IF ~granted THEN blt
                      ELSE execBltDone(
                             execRepeat(
                               execHoldD(
                                 execHoldA(
                                   execFetchA(
                                     execWriteD([blt EXCEPT !.bltpc = @ + 1],
                                                instr),
                                     instr),
                                   instr),
                                 instr, d),
                               instr),
                             instr)
    /\ UNCHANGED bltRest

(***************************************************************************)
(* Full and fake execution side by side: Blitter::exec(), fakeExec()       *)
(***************************************************************************)
\* The data fakeExec() records in busValue[]
FakeData == 34952

\* exec() that allocates the bus for a BUSIDLE instruction as well
BusKindAlloc(b, instr) ==
    IF "WRITE_D" \in instr
    THEN "bus"
    ELSE IF instr \cap {"FETCH_A", "FETCH_B", "FETCH_C", "BUS", "BUSIDLE"} # {}
         THEN "bus"
         ELSE "none"

\* exec() and fakeExec(): what the instruction asks of the bus: "bus" (it is
\* allocated), "busidle" (it has to be free) or "none"
BusKind(b, instr) ==
    IF "WRITE_D" \in instr
    THEN IF b.lockD THEN "busidle" ELSE "bus"
    ELSE IF instr \cap {"FETCH_A", "FETCH_B", "FETCH_C", "BUS"} # {}
         THEN "bus"
         ELSE IF "BUSIDLE" \in instr THEN "busidle" ELSE "none"

\* exec() with a micro-PC that is advanced before the bus is asked for
execOnEarly(b, granted, d) ==
    IF ~granted THEN [b EXCEPT !.bltpc = @ + 1]
    ELSE execBltDone(execRepeat(execHoldD(execHoldA(execFetchA(
             execWriteD([b EXCEPT !.bltpc = @ + 1], Instr(b)),
             Instr(b)), Instr(b)), Instr(b), d), Instr(b)), Instr(b))

\* exec() on Blitter b; granted: the bus was given or found free as asked
execOn(b, granted, d) ==
    IF ~granted THEN b
    ELSE execBltDone(execRepeat(execHoldD(execHoldA(execFetchA(
             execWriteD([b EXCEPT !.bltpc = @ + 1], Instr(b)),
             Instr(b)), Instr(b)), Instr(b), d), Instr(b)), Instr(b))

\* fakeExec() with a REPEAT that leaves stage D locked
fakeExecOnLocked(b, granted) ==
    IF ~granted THEN b
    ELSE [execBltDone(execRepeat([b EXCEPT !.bltpc = @ + 1], Instr(b)),
                      Instr(b)) EXCEPT !.lockD = b.lockD]

\* fakeExec() on Blitter b: the micro programs of fake execution have the
\* flags of those of full execution; only REPEAT and BLTDONE act
fakeExecOn(b, granted) ==
    IF ~granted THEN b
    ELSE execBltDone(execRepeat([b EXCEPT !.bltpc = @ + 1], Instr(b)),
                     Instr(b))

\* The state the two Blitters leave alone
twRest == <<lifeVars, cfgVars, cfgRet, snapVars, infoVars, busVars, ld, ev,
            dn, tm, irq, cp>>

\* A write to BLTSIZE starts the same blit in both executions
\* (beginSlowCopyBlit(), beginFakeCopyBlit())
twinStart(nr, fill, w, h) ==
    /\ blt.state # "run" /\ tw.fk.state # "run"
    /\ LET b == beginSlowCopyBlit([BltInit EXCEPT
                     !.state = "run", !.nr = nr, !.fill = fill,
                     !.bltsizeW = w, !.bltsizeH = h])
       IN  /\ blt' = b
           /\ tw' = [TwInit EXCEPT !.fk = b, !.tick = ~tw.tick]
    /\ UNCHANGED twRest

\* One DMA slot: a DMA channel of higher priority owns it or not, then each
\* Blitter executes its instruction. allocateBus<BUS_BLITTER>() succeeds and
\* marks the slot if it has no owner, busIsFree<BUS_BLITTER>() is true if it
\* has none; e is the data on the bus, d the result of the minterm logic
dmaSlot ==
    /\ blt.state = "run" \/ tw.fk.state = "run"
    /\ \E other \in {"BUS_NONE", "BUS_BITPLANE"}, e \in Word, d \in Word :
        LET free == other = "BUS_NONE"
            runF == blt.state = "run"
            runK == tw.fk.state = "run"
            iF == IF runF THEN Instr(blt) ELSE {}
            iK == IF runK THEN Instr(tw.fk) ELSE {}
            kF == IF runF THEN BusKind(blt, iF) ELSE "none"
            kK == IF runK THEN BusKind(tw.fk, iK) ELSE "none"
            gF == runF /\ (kF = "none" \/ free)
            gK == runK /\ (kK = "none" \/ free)
            fetch == {"FETCH_A", "FETCH_B", "FETCH_C"}
        IN  /\ blt' = IF runF THEN execOn(blt, gF, d) ELSE blt
            /\ tw' = [tw EXCEPT
                  !.fk = IF runK THEN fakeExecOn(tw.fk, gK) ELSE @,
                  !.ownF = IF kF = "bus" /\ free THEN "BUS_BLITTER" ELSE other,
                  !.ownK = IF kK = "bus" /\ free THEN "BUS_BLITTER" ELSE other,
                  !.valF = IF gF /\ iF \cap fetch # {} THEN e
                           ELSE IF gF /\ "WRITE_D" \in iF /\ ~blt.lockD
                                THEN blt.dhold
                                ELSE e,
                  !.valK = IF gK /\ iK \cap (fetch \cup {"WRITE_D"}) # {}
                           THEN FakeData ELSE e,
                  !.kind = kF, !.instr = iF, !.locked = blt.lockD,
                  !.wentF = gF, !.wentK = gK,
                  !.assigns = (IF free THEN 0 ELSE 1) +
                              (IF kF = "bus" /\ free THEN 1 ELSE 0),
                  !.tick = ~@]
    /\ UNCHANGED twRest

NextTwin ==
    \/ \E nr \in 0..15, fill \in BOOLEAN, w \in 1..MaxBltW, h \in 1..MaxBltH :
           twinStart(nr, fill, w, h)
    \/ dmaSlot

\* The same blits in full and in fake execution
SpecTwin == InitBus /\ [][NextTwin]_vars

NextBlt ==
    \/ \E nr \in 0..15, fill \in BOOLEAN, w \in 1..MaxBltW, h \in 1..MaxBltH :
           startBlit(nr, fill, w, h)
    \/ bltExec

\* Copy blits of the slow Blitter one after the other
SpecBlt == InitBus /\ [][NextBlt]_vars

\* Calls of configure() only
SpecCfg == InitCfg /\ [][NextCfg]_vars

\* The calls that change an input of the memory source table
SpecMem == InitMem /\ [][NextMem]_vars

\* Chip Ram, Roms and the writes of the Cpu to the Kickstart window
SpecRom == InitMem /\ [][NextRom]_vars

NextSnap ==
    \/ takeSnapshot
    \/ \E index \in {0, 1, Len(storage) - 1, Len(storage)} :
            index >= 0 /\ deleteSnapshot(index)

\* takeSnapshot() and deleteSnapshot() on one storage
SpecSnap == InitCfg /\ [][NextSnap]_vars

NextInfo ==
    execute \/ inspectLock \/ inspectAmiga \/ inspectCPU \/ getInfo
    \/ getInfoPaula

\* The emulator thread executes and inspects while the host calls getInfo()
SpecInfo == InitCfg /\ [][NextInfo]_vars

(***************************************************************************)
(* Properties of suspend(), resume() and pause()                           *)
(***************************************************************************)
\* The host is between two calls of the public API
Idle == stack[Host] = <<>>

\* C1: starting from a running emulator with suspendCounter = 0, after any
\* sequence of suspend() and resume() calls suspendCounter is 0 if and only
\* if the emulator is running.
C1_CounterZeroIffRunning ==
    Idle => (suspendCounter = 0 <=> State = "Running")

\* C2: inside a suspend() / resume() block opened on a running emulator no
\* emulator thread is executing: as long as suspendCounter is at least 1, no
\* thread is in runLoop().
C2_StoppedWhileSuspended ==
    suspendCounter >= 1 => \A t \in Workers : ~InRunLoop(t)

\* C3: once pause() has raised RL_STOP, at most one more instruction is
\* begun before the run loop is left, and the host gets past pthread_join()
\* in _pause() only when every emulator thread has terminated.
C3_StopWithinOneInstruction ==
    /\ obs.stopCnt <= 1
    /\ At(Host, "_pauseTail") => \A t \in Workers : ~Alive(t)

(***************************************************************************)
(* Properties of reset() and of run() with missing Roms                    *)
(***************************************************************************)
\* C4: reset() resets the components only while the emulator thread is
\* stopped (assert(!isRunning()) holds and no thread is in runLoop()), it
\* posts MSG_RESET, and when it has returned the emulator is in the state
\* (Off, Paused, Running) it was called in.
C4_ResetWhileStopped ==
    /\ At(Host, "resetBody") =>
            ~isRunning /\ \A t \in Workers : ~InRunLoop(t)
    /\ Idle /\ obs.call = "reset" =>
            State = obs.pre /\ Posted("MSG_RESET")

C9_RequestsServiced ==
    [][\A t \in Workers :
        /\ clrInsp(t) => obs.inspReq # "fresh"
        /\ clrSnap(t) => obs.snapReq # "fresh"
        /\ (At(t, Head(stack[t])) /\ Head(stack[t]) \in LoopLabels
              /\ stack'[t] # stack[t]) =>
                (runLoopCtrl \cap RL_DEBUG) \subseteq runLoopCtrl']_vars

(***************************************************************************)
(* Properties of configure() and of the memory source table                *)
(***************************************************************************)
\* The documented value set of each option
ValidValue(option, value) ==
    CASE option = "VA_AMIGA_MODEL" -> value \in {0, 1, 2}
      [] option = "VA_CHIP_RAM" -> value \in {256, 512}
      [] option = "VA_SLOW_RAM" -> value \in {0, 256, 512}
      [] option = "VA_FAST_RAM" -> value \in {64 * k : k \in 0..128}
      [] option = "VA_CPU_SPEED" -> value \in {1, 2, 4}
      [] option = "VA_BLITTER_ACCURACY" -> value \in {0, 1, 2}
      [] OTHER -> TRUE

\* C6: a call of configure() with a value outside the documented value set
\* of the option returns false, leaves the configuration unchanged and
\* posts no MSG_CONFIG.
C6_InvalidValueRejected ==
    [][\A option \in ConfigOptions, value \in CfgValues :
        configure(option, value) /\ ~ValidValue(option, value) =>
            /\ cfgRet' = FALSE
            /\ UNCHANGED cfgVars
            /\ ~Posted("MSG_CONFIG")']_vars

\* C10: the table memSrc is the table updateMemSrcTable() computes from the
\* current state of the memory and the real-time clock.
C10_MemSrcUpToDate ==
    mem.memSrc = MemSrcOf(mem, realTimeClock)

\* C11: with OVL low, a page of 0x00 ... 0x1F decodes to Chip Ram if and
\* only if it lies below chipSize / 64 KB, except that with 256 KB of Chip
\* Ram all the pages 0x00 ... 0x1F decode to Chip Ram.
C11_ChipPagesBySize ==
    ~mem.ovl =>
        \A i \in Pages : i <= 31 =>
            (mem.memSrc[i] = "MEM_CHIP" <=>
                (i < mem.chipSize \div 64 \/ mem.chipSize = 256))

WomWindow ==
    mem.womSize # 0 =>
        \A i \in Pages : 248 <= i =>
            mem.memSrc[i] = IF ~mem.womIsLocked /\ i <= 251 THEN "MEM_ROM"
                                                            ELSE "MEM_WOM"

\* C13: on a machine with Boot Rom and Wom, as long as the Wom is not locked
\* the pages 0xF8 ... 0xFB decode to the Rom and 0xFC ... 0xFF to the Wom;
\* once it is locked all of 0xF8 ... 0xFF decode to the Wom; and a write of
\* the Cpu to the Wom window locks the Wom.
C13_WomWriteLocks ==
    [][/\ WomWindow'
       /\ \A page \in {0, 248, 252} :
            poke(page) /\ mem.memSrc[page] = "MEM_WOM" =>
                mem'.womIsLocked]_vars

\* C13 as amended: the Wom is locked by a write of the Cpu to a page that
\* decodes to the Rom; a write to the Wom window is stored while the Wom is
\* not locked, is ignored afterwards, and never changes the lock.
C13_RomWriteLocks ==
    [][/\ WomWindow'
       /\ \A page \in {0, 248, 252} :
            /\ poke(page) /\ mem.memSrc[page] = "MEM_ROM" /\ mem.womSize # 0
                    => mem'.womIsLocked
            /\ poke(page) /\ mem.memSrc[page] = "MEM_WOM" =>
                    /\ mem'.womIsLocked = mem.womIsLocked
                    /\ mem'.womWritten = (mem.womWritten \/ ~mem.womIsLocked)
                    /\ mem'.memSrc = mem.memSrc]_vars

\* The Wom was written and then locked: 0xF8 ... 0xFF decode to the Wom
C13_Witness ==
    /\ mem.womSize # 0 /\ mem.womWritten /\ mem.womIsLocked
    /\ mem.memSrc[248] = "MEM_WOM" /\ mem.memSrc[255] = "MEM_WOM"

(***************************************************************************)
(* Properties of the memory accesses of the Cpu                            *)
(***************************************************************************)
\* An access of the Cpu has returned
Accessed == cpc = "idle" /\ acc.op # "none"

\* C14: every read or write of the Cpu at a page whose source is not Fast
\* Ram calls executeUntilBusIsFree() first, touches the memory only when the
\* bus is free, and leaves the value read or written in dataBus; an access
\* to Fast Ram never waits for the bus.
C14_NonFastWaitsForBus ==
    Accessed =>
        IF SrcOf(acc) = "MEM_FAST"
        THEN ~bus.waited
        ELSE /\ bus.waited
             /\ ~bus.busy
             /\ dataBus = IF acc.op \in {"peek8", "peek16"} THEN ret
                                                            ELSE acc.value

C16_FaultyReadOrsBus ==
    [][cpc = "touch" /\ cpc' = "idle" /\ acc.op = "peek16" /\ IsFaulty(acc)
        => ret' = Or(dataBus, IF busOwner' # "BUS_NONE" THEN busValue' ELSE 0)
      ]_vars

\* C16 as amended: such a read writes the previous value of dataBus into
\* the register and returns the DMA data of the current slot if the slot is
\* owned and 0xFFFF if it is not; dataBus then holds the value returned.
C16_FaultyReadBusValue ==
    [][cpc = "touch" /\ cpc' = "idle" /\ acc.op = "peek16" /\ IsFaulty(acc)
        => /\ ret' = IF busOwner' # "BUS_NONE" THEN busValue' ELSE AllOnes
           /\ ram'["COLOR00"] = dataBus
           /\ dataBus' = ret'
      ]_vars

\* A write-only register was read in a slot owned by DMA whose data is 0
\* while the data bus held 0xFFFF
C16_Witness ==
    /\ Accessed /\ acc.op = "peek16" /\ IsFaulty(acc)
    /\ busOwner = "BUS_BLITTER" /\ busValue = 0
    /\ ram["COLOR00"] = AllOnes /\ ret = 0

\* C17: a 16 bit access of the Cpu at an odd address is only reported: it
\* does not abort, and it is made at the even address below.
C17_OddAddressProceeds ==
    acc.odd => cpc # "aborted" /\ ~bus.unaligned

\* C18: after a snapshot with a size field above its region's limit has
\* been loaded, that region has size 0 and no memory, every other region has
\* the size recorded for it, and the load has run to its end.
C18_CorruptRegionZeroed ==
    (ld.pc # "idle" /\ Corrupt(ld.buffer) # {}) =>
        /\ ld.pc = "loaded"
        /\ \A r \in RegionSet :
              IF ld.buffer[r] > RegionLimit(r)
              THEN ld.size[r] = 0 /\ ~ld.ptr[r]
              ELSE ld.size[r] = ld.buffer[r] /\ (ld.ptr[r] <=> ld.size[r] # 0)

\* C19: bzero is true when a blit starts; at every later point of the blit
\* bzero is false exactly if some HOLD_D of the blit has produced a nonzero
\* dhold, and once false it does not become true again during the blit.
C19_BzeroTracksDhold ==
    /\ [](blt.state # "idle" => (~blt.bzero <=> blt.nz))
    /\ [][(blt.state # "run" /\ blt'.state = "run") => blt'.bzero]_vars
    /\ [][(blt.state = "run" /\ ~blt.bzero) => ~blt'.bzero]_vars

\* In a running blit whose zero flag is cleared a HOLD_D has produced 0
C19_Witness ==
    blt.state = "run" /\ ~blt.bzero /\ blt.nz /\ blt.dhold = 0

\* C20: a copy blit of width W and height H with channel D enabled has
\* written W*H words when it is done, one with channel D disabled none;
\* endBlit() is executed once, by the last instruction, and no word is
\* written beyond W*H while the blit runs.
C20_WritesWTimesH ==
    LET words == IF blt.nr % 2 = 1 THEN blt.bltsizeW * blt.bltsizeH ELSE 0
    IN  /\ blt.state = "done" => blt.written = words /\ blt.ended = 1
        /\ blt.state = "run" => blt.written <= words /\ blt.ended = 0
        /\ (blt.state = "run" /\ blt.lockD) => blt.written = 0

\* A blit of two lines of two words with all channels enabled is done and
\* has written four words
C20_Witness ==
    /\ blt.state = "done" /\ blt.nr = 15
    /\ blt.bltsizeW = 2 /\ blt.bltsizeH = 2 /\ blt.written = 4

(***************************************************************************)
(* Properties of the snapshot storage and of the info structs              *)
(***************************************************************************)
\* The snapshot of storage s that was taken first
Oldest(s) == CHOOSE x \in Range(s) : \A y \in Range(s) : x <= y

\* C7: a storage never holds more than MAX_SNAPSHOTS snapshots; taking a
\* snapshot with a full storage removes exactly the oldest one, puts the new
\* one at index 0 and keeps the others in their order.
C7_BoundedOldestEvicted ==
    /\ [](Len(storage) <= MAX_SNAPSHOTS)
    /\ [][taken' # taken /\ Len(storage) = MAX_SNAPSHOTS =>
            /\ Len(storage') = MAX_SNAPSHOTS
            /\ storage'[1] = taken'
            /\ storage'[1] \notin Range(storage)
            /\ Tail(storage') =
                    SelectSeq(storage, LAMBDA x : x # Oldest(storage))]_vars

\* A snapshot was taken with a full storage
C7_Witness ==
    /\ taken > MAX_SNAPSHOTS
    /\ Len(storage) = MAX_SNAPSHOTS
    /\ storage[1] = taken
    /\ getSnapshot(storage, MAX_SNAPSHOTS - 1) = taken - MAX_SNAPSHOTS + 1

\* C8: the emulator thread writes the info structs only while it holds the
\* mutex, and what a getInfo() of the host returns are the values of one
\* single inspection: its fields agree, and they are the live state some
\* inspect() was called in.
C8_InfoCoherent ==
    /\ wpc \in {"amigaInfo1", "amigaInfo2", "cpuInfo1", "cpuInfo2"} =>
            lock = "worker"
    /\ hpc = "idle" /\ result.of # "none" =>
            result.a = result.b /\ result.a \in captures

(***************************************************************************)
(* The event scheduler: Agnus::scheduleRel, executeUntil                   *)
(***************************************************************************)
\* The longest delay of a schedule call and the last cycle of the clock
MaxDelta == 2
MaxEvClock == 4

\* The slot holds an event
Pending(e, s) == e.slot[s].triggerCycle # NEVER

\* scheduleRel() that takes the delay for the trigger cycle
scheduleAbsDelta(e, s, delta, id) ==
    [e EXCEPT !.slot[s] = Event(delta, id),
              !.req[s] = Event(e.clock + delta, id),
              !.lost[s] = @ \/ Pending(e, s),
              !.mixed = [t \in EvSlots |->
                            IF t = s THEN FALSE ELSE @[t] \/ Pending(e, t)]]

\* scheduleRel<s>(delta, id): the slot's one event is set to the clock plus
\* the delay; an event that waits in the slot is replaced
scheduleRel(e, s, delta, id) ==
    [e EXCEPT !.slot[s] = Event(e.clock + delta, id),
              !.req[s] = Event(e.clock + delta, id),
              !.lost[s] = @ \/ Pending(e, s),
              !.mixed = [t \in EvSlots |->
                            IF t = s THEN FALSE ELSE @[t] \/ Pending(e, t)]]

\* cancel<s>(): the slot is left without event
cancel(e, s) == [e EXCEPT !.slot[s] = Event(NEVER, "")]

\* The state the scheduler leaves alone
evRest == <<lifeVars, cfgVars, cfgRet, snapVars, infoVars, busVars, ld, blt,
            tw, dn, tm, irq, cp>>

\* Amiga::setInspectionTarget(id): the inspection event is due at once
setInspectionTarget(id) ==
    /\ ev' = scheduleRel(ev, "INS_SLOT", 0, id)
    /\ UNCHANGED evRest

\* Blitter::beginFakeCopyBlit(), beginSlowCopyBlit(): the first Blitter
\* event is due one DMA cycle later
beginCopyBlit(id) ==
    /\ ev' = scheduleRel(ev, "BLT_SLOT", 1, id)
    /\ UNCHANGED evRest

\* The slot whose event is served next: the one due first, the Blitter's
\* before the inspector's if both are due at the same cycle
Due(e, s) == e.slot[s].triggerCycle <= e.clock

FirstDue(e, s) ==
    /\ Due(e, s)
    /\ \A t \in EvSlots \ {s} :
          Due(e, t) =>
              \/ e.slot[s].triggerCycle < e.slot[t].triggerCycle
              \/ /\ e.slot[s].triggerCycle = e.slot[t].triggerCycle
                 /\ s = "BLT_SLOT"

\* The handler of a slot is called with the identifier of the slot's event;
\* it cancels the slot or schedules its next event
serviceEvent(s) ==
    /\ FirstDue(ev, s)
    /\ LET called == [ev EXCEPT !.done[s] =
                         [at |-> ev.clock, due |-> ev.req[s].triggerCycle,
                          id |-> ev.slot[s].id, want |-> ev.req[s].id]]
       IN  \/ ev' = cancel(called, s)
           \/ \E delta \in 1..MaxDelta, id \in EvIds(s) :
                 ev' = scheduleRel(cancel(called, s), s, delta, id)
    /\ UNCHANGED evRest

\* Agnus advances by one DMA cycle once no event is due
executeCycle ==
    /\ ev.clock < MaxEvClock
    /\ \A s \in EvSlots : ~Due(ev, s)
    /\ ev' = [ev EXCEPT !.clock = @ + 1]
    /\ UNCHANGED evRest

NextEv ==
    \/ \E id \in EvIds("INS_SLOT") : setInspectionTarget(id)
    \/ \E id \in EvIds("BLT_SLOT") : beginCopyBlit(id)
    \/ \E s \in EvSlots : serviceEvent(s)
    \/ executeCycle

\* The scheduler with the schedule calls of the host and of the Blitter
SpecEv == InitBus /\ [][NextEv]_vars

(***************************************************************************)
(* Denise: sprite and colour registers, the recorded register changes      *)
(***************************************************************************)
\* The sprites, the colour registers written, the positions of Agnus and
\* the number of changes recorded in one line
MaxSprite == 3
MaxH == 1
MaxChanges == 1

Sprites == 0..MaxSprite
ColRegs == {0, 31}

\* The lines before this one are in the vertical blank
VBLANK_END == 26

\* The state Denise leaves alone
dnRest == <<lifeVars, cfgVars, cfgRet, snapVars, infoVars, busVars, ld, blt,
            tw, ev, tm, irq, cp>>

\* Room for one more recorded change in this line
Room == dn.inLine /\ Len(dn.con) + Len(dn.spr) + Len(dn.col) < MaxChanges

\* pokeSPRxPOS<x>(value)
pokeSPRxPOS(x, h) ==
    /\ Room
    /\ dn' = [dn EXCEPT !.spr = Append(@, <<4 * h, "REG_SPR0POS", x>>),
                        !.op = Op("pokeSPRxPOS", x, h, "")]
    /\ UNCHANGED dnRest

\* pokeSPRxCTL<x>(value): the sprite is disarmed
pokeSPRxCTL(x, h) ==
    /\ Room
    /\ dn' = [dn EXCEPT !.armed = @ \ {x},
                        !.spr = Append(@, <<4 * h, "REG_SPR0CTL", x>>),
                        !.op = Op("pokeSPRxCTL", x, h, "")]
    /\ UNCHANGED dnRest

\* pokeSPRxDATA<x>(value): the sprite is armed
pokeSPRxDATA(x, h) ==
    /\ Room
    /\ dn' = [dn EXCEPT !.armed = @ \cup {x}, !.wasArmed = @ \cup {x},
                        !.spr = Append(@, <<4 * h, "REG_SPR0DATA", x>>),
                        !.op = Op("pokeSPRxDATA", x, h, "")]
    /\ UNCHANGED dnRest

\* pokeSPRxDATB<x>(value)
pokeSPRxDATB(x, h) ==
    /\ Room
    /\ dn' = [dn EXCEPT !.spr = Append(@, <<4 * h, "REG_SPR0DATB", x>>),
                        !.op = Op("pokeSPRxDATB", x, h, "")]
    /\ UNCHANGED dnRest

\* armSprite(x)
armSprite(x) ==
    /\ dn.inLine
    /\ dn' = [dn EXCEPT !.armed = @ \cup {x},
                        !.op = Op("armSprite", x, 0, "")]
    /\ UNCHANGED dnRest

\* setBPLCON0(oldValue, newValue)
setBPLCON0(h) ==
    /\ Room
    /\ dn' = [dn EXCEPT
                 !.con = Append(@, <<IF 4 * h - 4 > 0 THEN 4 * h - 4 ELSE 0,
                                     "REG_BPLCON0_DENISE", 0>>),
                 !.op = Op("setBPLCON0", 0, h, "")]
    /\ UNCHANGED dnRest

\* setBPLCON2(value)
setBPLCON2(h) ==
    /\ Room
    /\ dn' = [dn EXCEPT !.con = Append(@, <<4 * h + 4, "REG_BPLCON2", 0>>),
                        !.op = Op("setBPLCON2", 0, h, "")]
    /\ UNCHANGED dnRest

\* pokeCOLORxx() that records a CPU write one slot earlier at every position
colTriggerUnclamped(s, h) ==
    IF s = "POKE_COPPER" THEN 4 * h ELSE 4 * (h - 1)

\* pokeCOLORxx<s, xx>(): the pixel at which the write is recorded
colTrigger(s, h) ==
    IF s = "POKE_COPPER" \/ h = 0 THEN 4 * h ELSE 4 * (h - 1)

\* pokeCOLORxx<s, xx>(value); Memory::poke16 passes POKE_CPU
pokeCOLORxx(s, xx, h) ==
    /\ Room
    /\ dn' = [dn EXCEPT
                 !.col = Append(@, <<colTrigger(s, h), "REG_COLOR00", xx>>),
                 !.op = Op("pokeCOLORxx", xx, h, s)]
    /\ UNCHANGED dnRest

\* translate(): the changes of BPLCON0 and BPLCON2 are applied and dropped
translate(d) == [d EXCEPT !.con = <<>>]

\* drawSprites(): the sprites are drawn, the sprite changes are dropped
drawSprites(d) == [d EXCEPT !.spr = <<>>]

\* endOfLine(vpos): a line below the vertical blank is translated and
\* drawn; a line of the vertical blank is left to the pixel engine
endOfLine(vpos) ==
    /\ dn.inLine
    /\ dn' = [(IF vpos >= VBLANK_END THEN drawSprites(translate(dn)) ELSE dn)
                 EXCEPT !.inLine = FALSE,
                        !.op = Op("endOfLine", vpos, 0, "")]
    /\ UNCHANGED dnRest

\* beginOfLine(vpos): two of the three histories are reset; the sprites
\* armed now are those that were armed in the line so far
beginOfLine ==
    /\ ~dn.inLine
    /\ dn' = [dn EXCEPT !.con = <<>>, !.col = <<>>, !.inLine = TRUE,
                        !.wasArmed = dn.armed,
                        !.op = Op("beginOfLine", 0, 0, "")]
    /\ UNCHANGED dnRest

NextDn ==
    \/ \E x \in Sprites, h \in 0..MaxH :
          \/ pokeSPRxPOS(x, h)
          \/ pokeSPRxCTL(x, h)
          \/ pokeSPRxDATA(x, h)
          \/ pokeSPRxDATB(x, h)
    \/ \E x \in Sprites : armSprite(x)
    \/ \E h \in 0..MaxH : setBPLCON0(h) \/ setBPLCON2(h)
    \/ \E s \in {"POKE_CPU", "POKE_COPPER"}, xx \in ColRegs, h \in 0..MaxH :
          pokeCOLORxx(s, xx, h)
    \/ \E vpos \in {VBLANK_END - 1, VBLANK_END} : endOfLine(vpos)
    \/ beginOfLine

\* Denise over the lines of a frame
SpecDn == InitBus /\ [][NextDn]_vars

(***************************************************************************)
(* Denise: collision detection, CLXDAT                                     *)
(***************************************************************************)
\* The collision checks between two reads of CLXDAT and the sprites that
\* meet in one pixel
MaxChecks == 2
MaxAtPixel == 2

\* The eight sprites and the sprites of the z buffer at one pixel
ClxSprites == 0..7
ZValues == {z \in SUBSET ClxSprites : Cardinality(z) <= MaxAtPixel}

\* The values of bits 12 to 15 of CLXCON (ENSP1 to ENSP7) that are written
ClxconValues == {{}, {13}, {12, 13, 14, 15}}

\* The sprites of a pair that take part in the comparison: the even one
\* always, the odd one if its ENSP bit of CLXCON is set
Comp(clxcon, pair) ==
    {2 * pair} \cup (IF 12 + pair \in clxcon THEN {2 * pair + 1} ELSE {})

\* checkS2SCollisions<x>(): the bits set for a pixel with the sprites z
S2SBits(clxcon, x, z) ==
    IF x % 2 = 1 /\ 12 + (x \div 2) \notin clxcon THEN {}
    ELSE IF z \ {x} = {} \/ x \notin z THEN {}
    ELSE LET hit(pa, pb) == z \cap Comp(clxcon, pa) # {} /\
                            z \cap Comp(clxcon, pb) # {}
         IN  (IF hit(2, 3) THEN {14} ELSE {}) \cup
             (IF hit(1, 3) THEN {13} ELSE {}) \cup
             (IF hit(1, 2) THEN {12} ELSE {}) \cup
             (IF hit(0, 3) THEN {11} ELSE {}) \cup
             (IF hit(0, 2) THEN {10} ELSE {}) \cup
             (IF hit(0, 1) THEN {9} ELSE {})

\* checkS2PCollisions<x>() that records playfield 2 in the sprite bits
S2PBitsHigh(clxcon, x, opaque, pf2, dpf, pf1) ==
    IF x % 2 = 1 /\ 12 + (x \div 2) \notin clxcon THEN {}
    ELSE IF ~opaque THEN {}
    ELSE IF pf2
         THEN {9 + (x \div 2), 1 + (x \div 2)}
         ELSE IF ~dpf THEN {}
              ELSE IF pf1 THEN {1 + (x \div 2)} ELSE {}

\* checkS2PCollisions<x>(): the bits set for a pixel at which the sprite is
\* opaque or not, playfield 2 and playfield 1 match or not and the mode is
\* dual playfield or not
S2PBits(clxcon, x, opaque, pf2, dpf, pf1) ==
    IF x % 2 = 1 /\ 12 + (x \div 2) \notin clxcon THEN {}
    ELSE IF ~opaque THEN {}
    ELSE IF pf2
         THEN {5 + (x \div 2), 1 + (x \div 2)}
         ELSE IF ~dpf THEN {}
              ELSE IF pf1 THEN {1 + (x \div 2)} ELSE {}

\* pokeCLXCON(value)
pokeCLXCON(value) ==
    /\ dn' = [dn EXCEPT !.clxcon = value, !.ret = {},
                        !.op = Op("pokeCLXCON", 0, 0, "")]
    /\ UNCHANGED dnRest

\* checkS2SCollisions<x>(start, end)
checkS2SCollisions(x, z) ==
    /\ dn.checks < MaxChecks
    /\ dn' = [dn EXCEPT !.clxdat = @ \cup S2SBits(dn.clxcon, x, z),
                        !.checks = @ + 1, !.ret = {},
                        !.op = Op("checkS2SCollisions", 0, 0, "")]
    /\ UNCHANGED dnRest

\* checkS2PCollisions<x>(start, end)
checkS2PCollisions(x, opaque, pf2, dpf, pf1) ==
    /\ dn.checks < MaxChecks
    /\ dn' = [dn EXCEPT
                 !.clxdat = @ \cup S2PBits(dn.clxcon, x, opaque, pf2, dpf, pf1),
                 !.checks = @ + 1, !.ret = {},
                 !.op = Op("checkS2PCollisions", 0, 0, "")]
    /\ UNCHANGED dnRest

\* checkP2PCollisions(): hit: both playfields match at some pixel
checkP2PCollisions(hit) ==
    /\ dn.checks < MaxChecks
    /\ dn' = [dn EXCEPT
                 !.clxdat = IF 0 \in @ THEN @
                            ELSE IF hit THEN @ \cup {0} ELSE @,
                 !.checks = @ + 1, !.ret = {},
                 !.op = Op("checkP2PCollisions", 0, 0, "")]
    /\ UNCHANGED dnRest

\* peekCLXDAT()
peekCLXDAT ==
    /\ dn' = [dn EXCEPT !.ret = dn.clxdat \cup {15},
                        !.clxdat = {},
                        !.checks = 0,
                        !.op = Op("peekCLXDAT", 0, 0, "")]
    /\ UNCHANGED dnRest

NextClx ==
    \/ \E value \in ClxconValues : pokeCLXCON(value)
    \/ \E x \in ClxSprites, z \in ZValues : checkS2SCollisions(x, z)
    \/ \E x \in ClxSprites, opaque, pf2, dpf, pf1 \in BOOLEAN :
          checkS2PCollisions(x, opaque, pf2, dpf, pf1)
    \/ \E hit \in BOOLEAN : checkP2PCollisions(hit)
    \/ peekCLXDAT

\* The collision checks of Denise and the reads of CLXDAT
SpecClx == InitBus /\ [][NextClx]_vars

(***************************************************************************)
(* The timer of the run loop: Amiga::restartTimer, synchronizeTiming       *)
(***************************************************************************)
\* The last time of the host, the last cycle of Agnus and the longest time
\* between two steps, in units of 100 ms
MaxTime == 8
MaxTmClock == 8
MaxDt == 4

\* 200000000 ns, in units of 100 ms
OUT_OF_SYNC == 2

\* The state the timer leaves alone
tmRest == <<lifeVars, cfgVars, cfgRet, snapVars, infoVars, busVars, ld, blt,
            tw, ev, dn, irq, cp>>

\* The emulator executes dc units of emulated time
emulate(dc) ==
    /\ tm.clock + dc <= MaxTmClock
    /\ tm' = [tm EXCEPT !.clock = @ + dc, !.done = "emulate"]
    /\ UNCHANGED tmRest

\* restartTimer() at time now
restartTimerAt(t, now) == [t EXCEPT !.timeBase = now, !.clockBase = t.clock]

\* restartTimer(), called when the run loop is entered
restartTimer(dt) ==
    /\ tm.time + dt <= MaxTime
    /\ tm' = [restartTimerAt(tm, tm.time + dt) EXCEPT
                 !.time = tm.time + dt, !.done = "restartTimer"]
    /\ UNCHANGED tmRest

\* synchronizeTiming() that sleeps whenever the target time is ahead
syncOutcomeSleepy(now, targetTime) ==
    IF now > targetTime /\ now - targetTime > OUT_OF_SYNC THEN "restart"
    ELSE IF now < targetTime THEN "sleep"
    ELSE "return"

\* synchronizeTiming(): what the call does for now and targetTime
syncOutcome(now, targetTime) ==
    IF now > targetTime /\ now - targetTime > OUT_OF_SYNC THEN "restart"
    ELSE IF now < targetTime
         THEN IF targetTime - now > OUT_OF_SYNC THEN "restart" ELSE "sleep"
         ELSE "return"

\* synchronizeTiming(), dt after the last step; mach_wait_until(targetTime)
\* returns at the target time
synchronizeTiming(dt) ==
    /\ tm.time + dt <= MaxTime
    /\ LET now == tm.time + dt
           targetTime == tm.timeBase + (tm.clock - tm.clockBase)
           out == syncOutcome(now, targetTime)
           t == [tm EXCEPT !.now = now, !.target = targetTime,
                           !.done = out,
                           !.slept = IF out = "sleep" THEN targetTime - now
                                     ELSE 0,
                           !.time = IF out = "sleep" THEN targetTime ELSE now]
       IN  /\ out = "sleep" => targetTime <= MaxTime
           /\ tm' = IF out = "restart" THEN restartTimerAt(t, now) ELSE t
    /\ UNCHANGED tmRest

NextTm ==
    \/ \E dc \in 1..MaxDt : emulate(dc)
    \/ \E dt \in 0..MaxDt : restartTimer(dt)
    \/ \E dt \in 0..MaxDt : synchronizeTiming(dt)

\* The run loop's timer against the time of the host
SpecTm == InitBus /\ [][NextTm]_vars

(***************************************************************************)
(* Paula: INTREQ, INTENA and the interrupt level                           *)
(***************************************************************************)
\* The bits of INTREQ that are written one at a time: the first and the
\* last bit of each group of interrupt sources
IrqBits == {0, 2, 3, 4, 6, 7, 10, 11, 12, 13, 14}

\* The values written to INTENA: bit 15 chooses between set and clear
EnaValues ==
    {b \cup s : b \in {0..14, {13, 14}, {3}, {0, 7}}, s \in {{}, {15}}}

\* The state Paula leaves alone
irqRest == <<lifeVars, cfgVars, cfgRet, snapVars, infoVars, busVars, ld, blt,
             tw, ev, dn, tm, cp>>

\* pokeINTREQ / pokeINTENA: with bit 15 the bits of the value are set, without
\* it they are cleared
SetClr(reg, value) ==
    IF 15 \in value THEN reg \cup (value \cap (0..14)) ELSE reg \ value

\* pokeINTREQ(value)
pokeINTREQ(value) ==
    /\ irq' = [irq EXCEPT !.intreq = SetClr(@, value), !.level = -1]
    /\ UNCHANGED irqRest

\* pokeINTENA(value)
pokeINTENA(value) ==
    /\ irq' = [irq EXCEPT !.intena = SetClr(@, value), !.level = -1]
    /\ UNCHANGED irqRest

\* interruptLevel() that tests the lowest group first
levelOfLowest(intreq, intena) ==
    LET mask == intreq \cap intena
    IN  IF mask \cap (0..2) # {} THEN 1
        ELSE IF mask \cap {3} # {} THEN 2
        ELSE IF mask \cap (4..6) # {} THEN 3
        ELSE IF mask \cap (7..10) # {} THEN 4
        ELSE IF mask \cap (11..12) # {} THEN 5
        ELSE IF mask \cap (13..14) # {} THEN 6
        ELSE 0

\* interruptLevel(): the value returned for intreq and intena
levelOf(intreq, intena) ==
    LET mask == intreq \cap intena
    IN  IF mask \cap (13..14) # {} THEN 6
        ELSE IF mask \cap (11..12) # {} THEN 5
        ELSE IF mask \cap (7..10) # {} THEN 4
        ELSE IF mask \cap (4..6) # {} THEN 3
        ELSE IF mask \cap {3} # {} THEN 2
        ELSE IF mask \cap (0..2) # {} THEN 1
        ELSE 0

\* interruptLevel()
interruptLevel ==
    /\ irq' = [irq EXCEPT !.level = levelOf(irq.intreq, irq.intena)]
    /\ UNCHANGED irqRest

NextIrq ==
    \/ \E b \in IrqBits, s \in {{}, {15}} : pokeINTREQ({b} \cup s)
    \/ \E value \in EnaValues : pokeINTENA(value)
    \/ interruptLevel

\* The interrupt registers of Paula
SpecIrq == InitBus /\ [][NextIrq]_vars

(***************************************************************************)
(* The micro program of the line Blitter                                   *)
(***************************************************************************)
\* The flags of an instruction that access the bus
BusAccess == {"FETCH_A", "FETCH_B", "FETCH_C", "WRITE_D"}

\* void (Blitter::*lineBlitInstr[6])(void): the line Blitter uses the same
\* micro program in all situations
lineBlitInstr == <<
    {"BUSIDLE"}, {"FETCH_C"}, {"BUSIDLE"}, {"WRITE_D", "REPEAT"},
    {}, {"WRITE_D", "BLTDONE"} >>

(***************************************************************************)
(* suspend() and resume() of an emulator that may be paused                *)
(***************************************************************************)
\* The host pauses, suspends and resumes the emulator
HostCallSP == \E op \in {"pause", "suspend", "resume"} : Call(op)

NextSP == HostCallSP \/ \E th \in Threads : StepSR(th)

\* pause(), suspend() and resume() from a running emulator
SpecSP == InitRunning /\ [][NextSP]_vars

(***************************************************************************)
(* The control ports: ControlPort::joydat(), _inspect(), Denise::_inspect() *)
(***************************************************************************)
\* The counters of the mouse are followed up to this value
MaxCounter == 2

\* The mouse has moved by at most this much between two calls
MaxMove == 1

\* The state the control ports leave alone
cpRest == <<lifeVars, cfgVars, cfgRet, snapVars, infoVars, busVars, ld, blt,
            tw, ev, dn, tm, irq>>

\* What mouse.getDeltaX() and getDeltaY() can return for a port whose
\* counters are c: the movement of the mouse is an input
Moves(c) == {d \in 0..MaxMove : c + d <= MaxCounter}

\* HI_LO(mouseCounterY & 0xFF, mouseCounterX & 0xFF)
HI_LO(hi, lo) == (hi % 256) * 256 + (lo % 256)

\* uint16_t ControlPort::joydat() on port q: with a mouse the movement since
\* the last call (dx, dy) is added to the counters; j is what the joystick
\* returns. The result is the new port and the value of JOYxDAT
joydat(q, dx, dy, j) ==
    IF q.device = "CPD_NONE" THEN [port |-> q, value |-> 0]
    ELSE IF q.device = "CPD_MOUSE"
    THEN [port |-> [q EXCEPT !.mouseCounterX = @ + dx,
                             !.mouseCounterY = @ + dy],
          value |-> HI_LO(q.mouseCounterY + dy, q.mouseCounterX + dx)]
    ELSE [port |-> q, value |-> j]

\* ControlPort::connectDevice(device) on port nr
connectDevice(nr, device) ==
    /\ cp' = [cp EXCEPT
                 !.port[nr].device =
                     IF device \in {"CPD_NONE", "CPD_MOUSE", "CPD_JOYSTICK"}
                     THEN device ELSE @,
                 !.op = "connectDevice"]
    /\ UNCHANGED cpRest

\* Denise::peekJOY0DATR() (nr = 1) and peekJOY1DATR() (nr = 2): the Cpu
\* reads JOYxDAT
peekJOYxDATR(nr) ==
    /\ \E dx \in Moves(cp.port[nr].mouseCounterX),
          dy \in Moves(cp.port[nr].mouseCounterY), j \in {0, 1} :
          LET r == joydat(cp.port[nr], dx, dy, j)
          IN  cp' = [cp EXCEPT !.port[nr] = r.port, !.ret = r.value,
                               !.op = "peekJOYxDATR"]
    /\ UNCHANGED cpRest

\* ControlPort::_inspect() of port nr: the pins are derived from joydat()
inspectPort(nr) ==
    /\ \E dx \in Moves(cp.port[nr].mouseCounterX),
          dy \in Moves(cp.port[nr].mouseCounterY), j \in {0, 1} :
          LET r == joydat(cp.port[nr], dx, dy, j)
          IN  cp' = [cp EXCEPT !.port[nr] = r.port, !.op = "_inspect"]
    /\ UNCHANGED cpRest

\* Denise::_inspect(): info.joydat[0] and info.joydat[1] are taken from
\* controlPort1.joydat() and controlPort2.joydat()
inspectDenise ==
    /\ \E dx1 \in Moves(cp.port[1].mouseCounterX),
          dy1 \in Moves(cp.port[1].mouseCounterY),
          dx2 \in Moves(cp.port[2].mouseCounterX),
          dy2 \in Moves(cp.port[2].mouseCounterY), j \in {0, 1} :
          LET r1 == joydat(cp.port[1], dx1, dy1, j)
              r2 == joydat(cp.port[2], dx2, dy2, j)
          IN  cp' = [cp EXCEPT !.port[1] = r1.port, !.port[2] = r2.port,
                               !.op = "_inspect"]
    /\ UNCHANGED cpRest

NextCp ==
    \/ \E nr \in 1..2,
          device \in {"CPD_NONE", "CPD_MOUSE", "CPD_JOYSTICK", "CPD_COUNT"} :
          connectDevice(nr, device)
    \/ \E nr \in 1..2 : peekJOYxDATR(nr) \/ inspectPort(nr)
    \/ inspectDenise

\* The control ports under reads of the Cpu and inspections of the debugger
SpecCp == InitBus /\ [][NextCp]_vars

(***************************************************************************)
(* C21: fake execution against full execution                              *)
(***************************************************************************)
\* C21 as stated: fake and full execution of the same blit step through the
\* same micro-PC sequence and leave identical busOwner and busValue entries
\* in every DMA slot
C21_FakeSameTrace ==
    /\ blt.bltpc = tw.fk.bltpc /\ blt.state = tw.fk.state
    /\ tw.ownF = tw.ownK
    /\ tw.valF = tw.valK

\* C21 as the code has it: fake and full execution of the same blit step
\* through the same micro-PC sequence and leave identical busOwner entries in
\* every DMA slot; the busValue entries are identical except in the slots
\* where the fake execution records its fake data 0x8888
C21_FakeSameOwners ==
    /\ blt.bltpc = tw.fk.bltpc /\ blt.state = tw.fk.state
    /\ blt.xCounter = tw.fk.xCounter /\ blt.yCounter = tw.fk.yCounter
    /\ tw.wentF = tw.wentK
    /\ tw.ownF = tw.ownK
    /\ tw.valK = tw.valF \/ tw.valK = FakeData

\* Both Blitters have fetched in a slot taken for the Blitter: the full
\* execution has recorded the data, the fake execution 0x8888
C21_Witness ==
    /\ tw.wentF /\ tw.wentK /\ tw.kind = "bus"
    /\ tw.ownF = "BUS_BLITTER" /\ tw.ownK = "BUS_BLITTER"
    /\ tw.valF \in Word /\ tw.valK = FakeData
    /\ blt.bltpc > 0 /\ blt.bltpc = tw.fk.bltpc

C22_WitnessRefused ==
    /\ "FETCH_A" \in tw.instr /\ ~tw.wentF
    /\ tw.ownF = "BUS_BITPLANE" /\ tw.assigns = 1

(***************************************************************************)
(* C30: a refused Blitter cycle                                            *)
(***************************************************************************)
\* C30: a micro instruction whose bus request is refused, or that needs an
\* idle bus and finds the slot taken, changes nothing in the Blitter, in full
\* and in fake execution: the same instruction is the next to be executed
C30_RefusedChangesNothing ==
    [][/\ (tw'.tick # tw.tick /\ blt.state = "run" /\ ~tw'.wentF)
           => (blt' = blt /\ Instr(blt') = tw'.instr)
       /\ (tw'.tick # tw.tick /\ tw.fk.state = "run" /\ ~tw'.wentK)
           => tw'.fk = tw.fk]_vars

\* A WRITE_D that stage D's lock suppresses has found its slot taken by the
\* bitplane DMA, in the middle of a blit
C30_Witness ==
    /\ blt.state = "run" /\ blt.bltpc > 0
    /\ "WRITE_D" \in tw.instr /\ tw.locked /\ ~tw.wentF /\ ~tw.wentK
    /\ tw.ownF = "BUS_BITPLANE"
    /\ Instr(blt) = tw.instr

C24_ArmedByDataOnly ==
    [][\A x \in Sprites :
          /\ (x \notin dn.armed /\ x \in dn'.armed)
                => (dn'.op.name = "pokeSPRxDATA" /\ dn'.op.x = x)
          /\ (x \in dn.armed /\ x \notin dn'.armed)
                => (dn'.op.name = "pokeSPRxCTL" /\ dn'.op.x = x)]_vars

(***************************************************************************)
(* C26: the recorded register changes                                      *)
(***************************************************************************)
\* C26: when a line has begun, none of the three histories holds a register
\* change of an earlier line
C26_HistoriesEmptyAtLineBegin ==
    dn.op.name = "beginOfLine"
        => (dn.con = <<>> /\ dn.spr = <<>> /\ dn.col = <<>>)

(***************************************************************************)
(* C27: the time of a colour register write                                *)
(***************************************************************************)
\* C27 as stated: at a position h > 0 a Copper write to a colour register is
\* recorded at pixel 4 * h and a CPU write one DMA slot later; no recorded
\* pixel is negative
C27_CpuColourWriteLater ==
    (dn.op.name = "pokeCOLORxx" /\ dn.col # <<>>)
        => LET t == dn.col[Len(dn.col)][1]
           IN  /\ t >= 0
               /\ (dn.op.h > 0 /\ dn.op.src = "POKE_COPPER") => t = 4 * dn.op.h
               /\ (dn.op.h > 0 /\ dn.op.src = "POKE_CPU")
                     => (t = 4 * (dn.op.h + 1) /\ t >= 4 * dn.op.h)

\* C27 as the code has it: at a position h > 0 a Copper write to a colour
\* register is recorded at pixel 4 * h and a CPU write one DMA slot earlier,
\* at pixel 4 * (h - 1), never later than the Copper write; no recorded pixel
\* is negative
C27_CpuColourWriteEarlier ==
    (dn.op.name = "pokeCOLORxx" /\ dn.col # <<>>)
        => LET t == dn.col[Len(dn.col)][1]
           IN  /\ t >= 0
               /\ (dn.op.h > 0 /\ dn.op.src = "POKE_COPPER") => t = 4 * dn.op.h
               /\ (dn.op.h > 0 /\ dn.op.src = "POKE_CPU")
                     => (t = 4 * (dn.op.h - 1) /\ t <= 4 * dn.op.h)

\* The CPU has written a colour register at position 1: the write is
\* recorded at pixel 0
C27_Witness ==
    /\ dn.op.name = "pokeCOLORxx" /\ dn.op.src = "POKE_CPU" /\ dn.op.h = 1
    /\ dn.col = <<<<0, "REG_COLOR00", dn.op.x>>>>

(***************************************************************************)
(* C25: the bits of CLXDAT                                                 *)
(***************************************************************************)
\* C25 as stated: the sprite-sprite check sets bits 9 to 14 only, the
\* sprite-playfield check bits 1 to 5 only, the playfield-playfield check
\* bit 0 only; a read returns the bits with bit 15 set and clears CLXDAT
C25_ClxGroupsTo5 ==
    [][LET new == dn'.clxdat \ dn.clxdat
       IN  /\ dn'.op.name = "checkS2SCollisions" => new \subseteq 9..14
           /\ dn'.op.name = "checkS2PCollisions" => new \subseteq 1..5
           /\ dn'.op.name = "checkP2PCollisions" => new \subseteq {0}
           /\ dn'.op.name = "peekCLXDAT"
                 => (dn'.ret = dn.clxdat \cup {15} /\ dn'.clxdat = {})]_vars

\* C25 as the code has it: the sprite-sprite check sets bits 9 to 14 only,
\* the sprite-playfield check bits 1 to 8 only, the playfield-playfield
\* check bit 0 only, and no check clears a bit; a read returns the bits with
\* bit 15 set and clears CLXDAT
C25_ClxGroupsTo8 ==
    [][LET new == dn'.clxdat \ dn.clxdat
       IN  /\ dn'.op.name = "checkS2SCollisions" => new \subseteq 9..14
           /\ dn'.op.name = "checkS2PCollisions" => new \subseteq 1..8
           /\ dn'.op.name = "checkP2PCollisions" => new \subseteq {0}
           /\ dn'.op.name \in {"checkS2SCollisions", "checkS2PCollisions",
                               "checkP2PCollisions"}
                 => dn.clxdat \subseteq dn'.clxdat
           /\ dn'.op.name = "peekCLXDAT"
                 => (dn'.ret = dn.clxdat \cup {15} /\ dn'.clxdat = {})]_vars

\* A read of CLXDAT has returned a collision of sprite 4 or 5 with playfield
\* 2 and one between the sprite pairs 2/3 and 4/5, and has left the register
\* empty
C25_Witness ==
    /\ dn.op.name = "peekCLXDAT"
    /\ dn.ret = {3, 7, 12, 15}
    /\ dn.clxdat = {}

(***************************************************************************)
(* C28: synchronizeTiming()                                                *)
(***************************************************************************)
\* C28: synchronizeTiming() sleeps only if the target time is ahead of now
\* by at most 200 ms, and then for no longer than that; if the two differ by
\* more than 200 ms it restarts the timer and does not sleep; if the target
\* time is now or behind by at most 200 ms it returns and changes nothing
C28_SyncSleepsAtMost200ms ==
    [][tm'.done \in {"restart", "sleep", "return"} =>
          LET now == tm'.now
              target == tm.timeBase + (tm.clock - tm.clockBase)
              ahead == target - now
          IN  /\ tm'.target = target
              /\ tm'.slept > 0 => (0 < ahead /\ ahead <= OUT_OF_SYNC
                                    /\ tm'.slept <= OUT_OF_SYNC)
              /\ (0 < ahead /\ ahead <= OUT_OF_SYNC)
                    => (tm'.done = "sleep" /\ tm'.slept = ahead
                        /\ tm'.timeBase = tm.timeBase
                        /\ tm'.clockBase = tm.clockBase)
              /\ (ahead > OUT_OF_SYNC \/ 0 - ahead > OUT_OF_SYNC)
                    => (tm'.done = "restart" /\ tm'.slept = 0
                        /\ tm'.timeBase = now /\ tm'.clockBase = tm.clock
                        /\ tm'.time = now)
              /\ (ahead <= 0 /\ 0 - ahead <= OUT_OF_SYNC)
                    => (tm'.done = "return" /\ tm'.slept = 0
                        /\ tm'.time = now
                        /\ tm'.timeBase = tm.timeBase
                        /\ tm'.clockBase = tm.clockBase)]_vars

\* The emulator was 200 ms ahead and has slept for 200 ms
C28_Witness ==
    /\ tm.done = "sleep" /\ tm.slept = OUT_OF_SYNC
    /\ tm.target - tm.now = OUT_OF_SYNC /\ tm.time = tm.target

\* The emulator was more than 200 ms ahead and has restarted the timer
C28_WitnessRestart ==
    /\ tm.done = "restart" /\ tm.target - tm.now > OUT_OF_SYNC
    /\ tm.slept = 0 /\ tm.timeBase = tm.now /\ tm.clockBase = tm.clock

(***************************************************************************)
(* C29: the interrupt level                                                *)
(***************************************************************************)
\* The highest bit of a set of bits
HighestBit(m) == CHOOSE b \in m : \A c \in m : c <= b

\* The level of an interrupt source, after the table of the claim
LevelOfBit(b) ==
    IF b >= 13 THEN 6
    ELSE IF b >= 11 THEN 5
    ELSE IF b >= 7 THEN 4
    ELSE IF b >= 4 THEN 3
    ELSE IF b = 3 THEN 2
    ELSE 1

\* C29: interruptLevel() returns 0 iff no bit of 0..14 is set in both INTREQ
\* and INTENA, and otherwise the level of the highest such bit
C29_LevelOfHighestBit ==
    irq.level # -1 =>
       LET m == irq.intreq \cap irq.intena \cap (0..14)
       IN  /\ irq.level = 0 <=> m = {}
           /\ m # {} => irq.level = LevelOfBit(HighestBit(m))

\* Two requested and enabled sources of different levels: the level is that
\* of the higher one
C29_Witness ==
    /\ irq.intreq \cap irq.intena = {2, 7}
    /\ 14 \in irq.intreq /\ 14 \notin irq.intena
    /\ irq.level = 4

(***************************************************************************)
(* C31, C32, C36: the micro programs of the slow Blitter                   *)
(***************************************************************************)
\* C31: in fill mode every word a copy blit writes through channel D has
\* passed through doFill() exactly once after its minterm computation, in
\* every micro program with channel D, the last word (the one the tail of
\* the program writes) included.
C31_WrittenWordsFilledOnce ==
    [][(blt.state = "run" /\ blt.fill /\ blt'.written = blt.written + 1)
          => blt.fills = 1]_vars

C36_OneBusAccessPerInstr ==
    /\ \A nr \in 1..16, f \in 1..2 :
          \A i \in DOMAIN copyBlitInstr[nr][f] :
              Cardinality(copyBlitInstr[nr][f][i] \cap BusAccess) <= 1
    /\ \A i \in DOMAIN lineBlitInstr :
          Cardinality(lineBlitInstr[i] \cap BusAccess) <= 1
    /\ blt.state = "run" => Cardinality(Instr(blt) \cap BusAccess) <= 1

\* The Blitter is about to execute the instruction WRITE_D | REPEAT of the
\* program with all four channels
C36_Witness ==
    /\ blt.state = "run" /\ blt.nr = 15 /\ blt.bltpc = 3
    /\ Instr(blt) \cap BusAccess = {"WRITE_D"}

(***************************************************************************)
(* C37: the sprites drawn in a line                                        *)
(***************************************************************************)
\* C37: from the first beginOfLine() on every armed sprite is in wasArmed,
\* so that every sprite that was armed at some moment of a line is among the
\* sprites drawSprites() draws for that line, also if it was disarmed later
\* in the line.
C37_ArmedWithinWasArmed ==
    dn.armed \subseteq dn.wasArmed

(***************************************************************************)
(* C33, C34, C35: stop requests, pause() against a terminating thread,     *)
(* suspend() of a stopped emulator                                         *)
(***************************************************************************)
\* C33: whenever no emulator thread is running and no call of the host is
\* in progress (the emulator is Paused or Off), RL_STOP is clear: a stop
\* request is consumed by the termination of the run loop it causes, also
\* when the loop ends through a breakpoint, so that no later run loop ends
\* because of an earlier request.
C33_NoStaleStop ==
    ((\A t \in Workers : ~Alive(t)) /\ stack[Host] = <<>>)
        => "RL_STOP" \notin runLoopCtrl

\* The messages m in the log of the current host call
Count(m) == Cardinality({i \in 1..Len(msgs) : msgs[i] = m})

\* C34: pause() called by the host while the emulator thread terminates on
\* its own (breakpoint, threadDidTerminate()) is safe: the host never passes
\* a handle p to pthread_join that the thread has cleared, and once the call
\* has returned and the thread is gone the emulator is Paused with p == NULL
\* and exactly one MSG_PAUSE has been posted.
C34_PauseRaceSafe ==
    /\ [][(At(Host, "_pauseJoin") /\ ~At(Host, "_pauseJoin")') =>
              jt'[Host] # 0]_vars
    /\ []((stack[Host] = <<>> /\ obs.call = "pause" /\ obs.pre = "Running"
             /\ \A t \in Workers : ~Alive(t))
          => (p = 0 /\ ~running /\ Count("MSG_PAUSE") = 1))

C38_LockedWomKeepsContents ==
    [][\A page \in {0, 248, 252} :
          (poke(page) /\ mem.womIsLocked) =>
              /\ mem'.womIsLocked
              /\ mem'.womData = mem.womData
              /\ mem'.womWritten = mem.womWritten]_vars

\* The Wom holds a 1, is locked, and the last write went to the Wom window
C38_Witness ==
    /\ mem.womSize # 0 /\ mem.womIsLocked /\ mem.womData = 1
    /\ mem.memSrc[248] = "MEM_WOM" /\ msgs = <<>>

(***************************************************************************)
(* C39: inspection of the control ports                                    *)
(***************************************************************************)
\* C39: _inspect() of a control port and _inspect() of Denise change no
\* emulated state, in particular not mouseCounterX and mouseCounterY of a
\* port, so that what a read of JOYxDAT returns does not depend on how often
\* the debugger inspects.
C39_InspectChangesNoState ==
    [][cp'.op = "_inspect" => cp'.port = cp.port]_vars

(***************************************************************************)
(* C40: the invariants of Memory::alloc()                                  *)
(***************************************************************************)
\* C40: after any sequence of allocations, failed allocations and snapshot
\* loads the three assertions at the head of Memory::alloc() hold for every
\* region: its pointer is NULL exactly if its size is 0 and exactly if its
\* mask is 0, and an allocated region has mask == size - 1.
C40_AllocInvariantsHold ==
    ld.pc # "aborted" => \A r \in RegionSet : AllocAsserts(ld, r)

====
